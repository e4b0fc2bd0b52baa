-------------------------- MODULE OneTimeApproval --------------------------
(***************************************************************************)
(* What human approval promises: an approval is opened for one subject, a   *)
(* reviewer decides it once, and an approved one is used at most once, for  *)
(* exactly the subject it was opened for.  Clocks, agents and delegations   *)
(* are not visible at this level: they only make uses rarer.               *)
(***************************************************************************)
CONSTANTS Ids, Subjects, UseIds, None

VARIABLES
    stage,   \* [Ids -> {"none", "pending", "approved", "denied", "spent"}]
    subject, \* what each opened approval is for
    uses     \* the uses made: <<use, approval, what it was used for>>

avars == <<stage, subject, uses>>

AInit ==
    /\ stage = [i \in Ids |-> "none"]
    /\ subject = [i \in Ids |-> None]
    /\ uses = {}

Open(i, s) ==
    /\ stage[i] = "none"
    /\ stage' = [stage EXCEPT ![i] = "pending"]
    /\ subject' = [subject EXCEPT ![i] = s]
    /\ UNCHANGED uses

Decide(i, verdict) ==
    /\ stage[i] = "pending"
    /\ stage' = [stage EXCEPT ![i] = verdict]
    /\ UNCHANGED <<subject, uses>>

Use(i, n) ==
    /\ stage[i] = "approved"
    /\ \A u \in uses : u[1] # n
    /\ stage' = [stage EXCEPT ![i] = "spent"]
    /\ uses' = uses \cup {<<n, i, subject[i]>>}
    /\ UNCHANGED subject

ANext ==
    \/ \E i \in Ids, s \in Subjects : Open(i, s)
    \/ \E i \in Ids, v \in {"approved", "denied"} : Decide(i, v)
    \/ \E i \in Ids, n \in UseIds : Use(i, n)

ASpec == AInit /\ [][ANext]_avars
=============================================================================
