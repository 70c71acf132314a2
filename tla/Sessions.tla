-------------------------------- MODULE Sessions --------------------------------
(***************************************************************************)
(* What the auth routes promise of a login: a session that is continued by *)
(* one key at a time.                                                      *)
(*                                                                         *)
(* A refresh takes the key away and later gives another one, which never   *)
(* was a key before; it may also be given up in between.  A logout that    *)
(* finds the key, or the end of its time, takes it for good; one that      *)
(* comes while a refresh turns the session finds nothing to take.  A       *)
(* session without a key that no refresh is turning is over, and nothing   *)
(* brings it back.                                                         *)
(***************************************************************************)

CONSTANT Tokens   \* keys, and the names of sessions: the first key of each

VARIABLES key,       \* key[s]: the key of session s, as a set of at most one
          turning,   \* sessions whose key was taken to be replaced
          used       \* tokens that are or were keys

vars == <<key, turning, used>>

Init ==
    /\ key = [s \in Tokens |-> {}]
    /\ turning = {} /\ used = {}

\* Session s gets a key that is new.
Grant(s, t) ==
    /\ t \in Tokens \ used
    /\ used' = used \cup {t}
    /\ key' = [key EXCEPT ![s] = {t}]

\* Session s has a key, and loses it.
Take(s) ==
    /\ key[s] # {}
    /\ key' = [key EXCEPT ![s] = {}]
    /\ UNCHANGED used

Login(t) == Grant(t, t) /\ UNCHANGED turning
Close(s) == Take(s) /\ UNCHANGED turning

\* The two halves of a refresh, and its failure between them.
Turn(s) == Take(s) /\ turning' = turning \cup {s}
Renew(s, t) == s \in turning /\ Grant(s, t) /\ turning' = turning \ {s}
GiveUp(s) == turning' = turning \ {s} /\ UNCHANGED <<key, used>>

Next ==
    \E s \in Tokens :
        \/ Login(s) \/ Close(s) \/ Turn(s) \/ GiveUp(s)
        \/ \E t \in Tokens : Renew(s, t)

Spec == Init /\ [][Next]_vars
===============================================================================
