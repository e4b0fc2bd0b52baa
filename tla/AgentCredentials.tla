-------------------------- MODULE AgentCredentials --------------------------
(***************************************************************************)
(* Local agent keys (selfhost/agent_credentials.py).  Administrators issue,  *)
(* rotate and revoke keys and switch agents off and on in the console;      *)
(* gateways authenticate against the same files.  The key table and the     *)
(* broker's agents are two stores: issue and authenticate look at them one  *)
(* after the other, so each is two steps.                                   *)
(***************************************************************************)
EXTENDS Naturals, FiniteSets

CONSTANTS
    Credentials,  \* identifiers of keys, taken one by one
    Agents,
    Admins,       \* console requests in progress
    NoCredential

ASSUME NoCredentialAssumption == NoCredential \notin Credentials

VARIABLES
    credential,  \* per key: its row, or none
    enabled,     \* agents that are switched on
    admin        \* per console request: the agent it is about to issue a key for, or none

credentialVars == <<credential, enabled, admin>>

NoAgent == "none"
NoRow == [agent |-> NoAgent, status |-> "none", successor |-> {}]

CredentialInit ==
    /\ credential = [c \in Credentials |-> NoRow]
    /\ enabled = Agents
    /\ admin = [m \in Admins |-> NoAgent]

\* authenticate's two questions: is the row active, is its agent enabled?
Active(c) == credential[c].status = "active"
Enabled(a) == a \in enabled

-----------------------------------------------------------------------------
\* issue looks at the agent before its transaction.
IssueBegin(m, a) ==
    /\ admin[m] = NoAgent /\ Enabled(a)
    /\ admin' = [admin EXCEPT ![m] = a]
    /\ UNCHANGED <<credential, enabled>>

RotatableAnytime(c, a) == credential[c].agent = a

\* Only a key of this agent that is not revoked can be rotated; expiry is not asked.
Rotatable(c, a) == credential[c].agent = a /\ credential[c].status \in {"active", "expired"}

\* One transaction revokes the key to be rotated, if one is named, and inserts the
\* new one, or does neither.
IssueCommit(m, old, new) ==
    /\ admin[m] # NoAgent /\ credential[new] = NoRow
    /\ admin' = [admin EXCEPT ![m] = NoAgent]
    /\ LET row == [NoRow EXCEPT !.agent = admin[m], !.status = "active"] IN
       credential' =
         IF old = NoCredential THEN [credential EXCEPT ![new] = row]
         ELSE IF Rotatable(old, admin[m])
         THEN [credential EXCEPT ![new] = row, ![old].status = "revoked",
                                 ![old].successor = @ \cup {new}]
         ELSE credential
    /\ UNCHANGED enabled

Revoke(c, a) ==
    /\ credential[c].agent = a /\ credential[c].status # "revoked"
    /\ credential' = [credential EXCEPT ![c].status = "revoked"]
    /\ UNCHANGED <<enabled, admin>>

\* The key's lifetime is over.
Expire(c) ==
    /\ Active(c)
    /\ credential' = [credential EXCEPT ![c].status = "expired"]
    /\ UNCHANGED <<enabled, admin>>

\* agents/{agent_id}/status in the console
SwitchAgent(a) ==
    /\ enabled' = IF a \in enabled THEN enabled \ {a} ELSE enabled \cup {a}
    /\ UNCHANGED <<credential, admin>>

CredentialNext ==
    \/ \E m \in Admins, a \in Agents : IssueBegin(m, a)
    \/ \E m \in Admins, old \in Credentials \cup {NoCredential}, new \in Credentials :
         IssueCommit(m, old, new)
    \/ \E c \in Credentials, a \in Agents : Revoke(c, a)
    \/ \E c \in Credentials : Expire(c)
    \/ \E a \in Agents : SwitchAgent(a)

\* A key is replaced at most once, also by two rotations at the same time ("Rotation
\* immediately revokes the old key", docs/en/aisg.md): otherwise one of two callers
\* would hold a second live key for what the other believes it has replaced.
RotatedOnce == \A c \in Credentials : Cardinality(credential[c].successor) <= 1
=============================================================================
