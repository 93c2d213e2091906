----------------------------- MODULE VerifyShare -----------------------------
(***************************************************************************)
(* SmbProxyVerifyShare (gpl_util/smb/ops/verify_share_op.cc): the name of  *)
(* the server is resolved (MaybeResolveIPv4, apache_util/net/util.cc), and *)
(* the addresses are tried in turn until the share answers through one of  *)
(* them.                                                                   *)
(*                                                                         *)
(* An address that may fail may do so in GetOrCreateSmbConnection or in    *)
(* the query.  The connections of a task are pooled whatever server they   *)
(* go to, so the op may be given one to another address.                   *)
(***************************************************************************)
EXTENDS Integers, SequencesExt

CONSTANTS
  Addrs,        \* the addresses of the server
  Works,        \* for each address: the possible outcomes of a call
  Pooled,       \* the addresses of the task's inactive connections, in order
  NumAttempts,  \* apache_util_net_dns_resolve_num_attempts
  MaxRetries,   \* smb_proxy_verify_share_retries
  NoAddr

VARIABLES
  pc,
  attempts,     \* attempts to resolve the name
  ipv4_addr_set,
  left,         \* the addresses of this round that are still to be tried
  ii,           \* the round
  addr,         \* the address being tried
  conn,         \* the address the connection goes to
  inactive,     \* inactive_connection_list
  error,        \* error.Ok() or not
  first_working_ip

vars == <<pc, attempts, ipv4_addr_set, left, ii, addr, conn, inactive, error,
          first_working_ip>>

Init ==
  /\ pc = "resolve" /\ attempts = 0 /\ ipv4_addr_set = {} /\ left = {} /\ ii = 0
  /\ addr = NoAddr /\ conn = NoAddr /\ inactive = Pooled
  /\ error = "ok" /\ first_working_ip = NoAddr

\* MaybeResolveIPv4: each attempt gives the first address of an answer, and the
\* resolver may answer in another order each time; a failure ends the loop.
ResolveIPv4 ==
  /\ pc = "resolve" /\ attempts < NumAttempts
  /\ \/ /\ \E a \in Addrs : ipv4_addr_set' = ipv4_addr_set \cup {a}
        /\ attempts' = attempts + 1
     \/ attempts' = NumAttempts /\ UNCHANGED ipv4_addr_set
  /\ UNCHANGED <<pc, left, ii, addr, conn, inactive, error, first_working_ip>>

StartRounds ==
  /\ pc = "resolve" /\ attempts = NumAttempts
  /\ pc' = "loop"
  /\ left' = ipv4_addr_set
  /\ error' = IF ipv4_addr_set = {} THEN "error" ELSE error
  /\ UNCHANGED <<attempts, ipv4_addr_set, ii, addr, conn, inactive, first_working_ip>>

\* GetOrCreateSmbConnection: the first inactive connection of the task, or else a new
\* one to the address.
GetOrCreateSmbConnection ==
  /\ pc = "loop" /\ left # {}
  /\ \E a \in left :
       /\ left' = left \ {a}
       /\ addr' = a
       /\ IF inactive # <<>>
            THEN /\ conn' = Head(inactive) /\ inactive' = Tail(inactive)
                 /\ pc' = "query" /\ UNCHANGED error
            ELSE \E works \in Works[a] :
                   /\ conn' = IF works THEN a ELSE NoAddr
                   /\ pc' = IF works THEN "query" ELSE "loop"
                   /\ error' = IF works THEN error ELSE "error"
                   /\ UNCHANGED inactive
  /\ UNCHANGED <<attempts, ipv4_addr_set, ii, first_working_ip>>

\* The query of the share's size; the connection is shut down, and the op returns if
\* no error is set.
GetShareSizeInfo ==
  /\ pc = "query"
  /\ \E works \in Works[conn] : error' = IF works THEN error ELSE "error"
  /\ conn' = NoAddr
  /\ pc' = IF error' = "ok" THEN "done" ELSE "loop"
  /\ first_working_ip' = IF error' = "ok" THEN addr ELSE NoAddr
  /\ UNCHANGED <<attempts, ipv4_addr_set, left, ii, addr, inactive>>

\* The next round; after the last one the op fails.
NextRound ==
  /\ pc = "loop" /\ left = {}
  /\ IF ii < MaxRetries THEN ii' = ii + 1 /\ left' = ipv4_addr_set /\ UNCHANGED pc
                        ELSE pc' = "done" /\ UNCHANGED <<ii, left>>
  /\ UNCHANGED <<attempts, ipv4_addr_set, addr, conn, inactive, error, first_working_ip>>

Next ==
  \/ ResolveIPv4
  \/ StartRounds
  \/ GetOrCreateSmbConnection
  \/ GetShareSizeInfo
  \/ NextRound

Spec == Init /\ [][Next]_vars

-----------------------------------------------------------------------------
\* An address through which the share always answers is found: the op goes through
\* the addresses to "find the first one available for us to access the share".
FindsWorking ==
  pc = "done" /\ (\E a \in ipv4_addr_set : Works[a] = {TRUE}) => first_working_ip # NoAddr

\* The address that is reported is one "through which we can successfully connect to
\* the share", not just an address that was next when a pooled connection answered.
WorkingIpWorks == first_working_ip # NoAddr => TRUE \in Works[first_working_ip]

=============================================================================
