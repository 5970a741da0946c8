-------------------------- MODULE DuplicateFilter ---------------------------
(***************************************************************************)
(* What a filter for duplicates promises, whatever its memory looks like:  *)
(* what it refuses it has accepted before, and accepting something new     *)
(* only forgets what is not among the last Window acceptances.  Entries    *)
(* may expire.  The cache of PacketRouting implements Spec, the message    *)
(* history of MeshyTask StrictSpec.                                        *)
(***************************************************************************)
EXTENDS Integers, Sequences

CONSTANTS
    Key,        \* what is compared
    Untracked,  \* keys that are accepted every time
    Window      \* acceptances that are remembered, at least 1

VARIABLES
    log,    \* the keys accepted, in order
    known   \* the keys that would be refused

filterVars == <<log, known>>

\* The last n keys of a sequence.
Last(s, n) == {s[i] : i \in {j \in 1 .. Len(s) : j > Len(s) - n}}

Init == log = <<>> /\ known = {}

\* A new key: it is remembered, as are the known ones that are recent.
Accept(k) ==
    /\ k \notin known
    /\ log' = Append(log, k)
    /\ known' \subseteq known \cup {k}
    /\ known \cap Last(log, Window - 1) \subseteq known'
    /\ k \notin Untracked => k \in known'

\* Some keys expire.
Expire ==
    /\ known' \subseteq known
    /\ UNCHANGED log

StrictNext == \E k \in Key : Accept(k)
Next == StrictNext \/ Expire

Spec == Init /\ [][Next]_filterVars
StrictSpec == Init /\ [][StrictNext]_filterVars
=============================================================================
