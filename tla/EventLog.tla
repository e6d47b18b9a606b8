------------------------------ MODULE EventLog ------------------------------
(***************************************************************************)
(* What following a subgraph promises (abstract): there is one log, which  *)
(* only grows.  A follower learns what the log has led to so far, or       *)
(* nothing, takes its place accordingly, and from there reads on, entry    *)
(* after entry, never back and never past one.                             *)
(***************************************************************************)
EXTENDS Naturals, Sequences

CONSTANT Entries

VARIABLES
    log,
    following,      \* the follower has taken its place
    start,          \* entries before its place
    read            \* what it has read since

logVars == <<log, following, start, read>>

LogInit ==
    /\ log = <<>> /\ following = FALSE
    /\ start = 0 /\ read = <<>>

Write(e) ==
    /\ \A i \in DOMAIN log : log[i] # e
    /\ log' = Append(log, e)
    /\ UNCHANGED <<following, start, read>>

\* Until the first entry is read a late one may still fall before the place:
\* it is never read.
WriteLate(e) ==
    /\ following /\ start = Len(log) /\ read = <<>>
    /\ \A i \in DOMAIN log : log[i] # e
    /\ log' = Append(log, e) /\ start' = Len(log')
    /\ UNCHANGED <<following, read>>

Follow ==
    /\ ~following /\ following' = TRUE
    /\ start' \in {0, Len(log)}
    /\ UNCHANGED <<log, read>>

Read(n) ==
    /\ following
    /\ start + Len(read) + n <= Len(log)
    /\ read' = read \o [i \in 1 .. n |-> log[start + Len(read) + i]]
    /\ UNCHANGED <<log, following, start>>

LogNext ==
    \/ \E e \in Entries : Write(e) \/ WriteLate(e)
    \/ Follow
    \/ \E n \in 1 .. Len(log) : Read(n)

LogSpec == LogInit /\ [][LogNext]_logVars
=============================================================================
