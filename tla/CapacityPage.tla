------------------------------ MODULE CapacityPage ----------------------------
(* The system capacity page: it polls the policy, starts its form anew whenever *)
(* a new revision arrives, and writes the whole policy back. Another           *)
(* administrator may change the policy at any time. The five numbers of the    *)
(* policy are one field, limit, which is 0 when they contradict each other.    *)
EXTENDS Naturals, FiniteSets

CONSTANTS MaxLimit, MaxRevision,
          MaxSaves    \* saves under way at a time, those of a page left included

ASSUME CapacityAssumption == MaxLimit \in Nat \ {0} /\ MaxRevision \in Nat \ {0} /\ MaxSaves \in Nat

VARIABLES policy,      \* the service's: [revision, limit, maintenance, paused]
          capacity,    \* <<>> or the policy as last loaded
          loadError,   \* the last load failed: an error takes the place of the form
          polling,     \* <<>>, <<"sent">> or <<"read", the policy the service read>>
          draft,       \* the form: <<>> or <<[limit, maintenance, paused]>>
          edited,      \* the fields changed since the form was started
          saves        \* saves under way: [body, own, done], own if the page still waits for
                       \* it, done if the service has written it

capacityVars == <<policy, capacity, loadError, polling, draft, edited, saves>>

PolicyFields == {"limit", "maintenance", "paused"}
FormOf(p) == [f \in PolicyFields |-> p[f]]
Drafts == [limit : 0..MaxLimit, maintenance : BOOLEAN, paused : BOOLEAN]

Valid(p) == p.limit >= 1 /\ (p.paused => p.maintenance)

CapacityInit ==
    /\ policy = [revision |-> 1, limit |-> 1, maintenance |-> FALSE, paused |-> FALSE]
    /\ capacity = <<>>
    /\ loadError = FALSE
    /\ polling = <<>>
    /\ draft = <<>>
    /\ edited = {}
    /\ saves = {}

-----------------------------------------------------------------------------
(* Loading *)

PollCapacity ==
    /\ polling = <<>>
    /\ polling' = <<"sent">>
    /\ UNCHANGED <<policy, capacity, loadError, draft, edited, saves>>

adminSystemCapacity ==
    /\ polling = <<"sent">>
    /\ polling' = <<"read", policy>>
    /\ UNCHANGED <<policy, capacity, loadError, draft, edited, saves>>

Mutant_FormOnFirstLoad(p) ==
    /\ capacity' = <<p>>
    /\ IF draft = <<>> THEN draft' = <<FormOf(p)>> ELSE UNCHANGED draft
    /\ edited' = IF capacity = <<>> \/ capacity[1].revision # p.revision THEN {} ELSE edited

\* The effect on [revision].
ShowCapacity(p) ==
    /\ capacity' = <<p>>
    /\ IF capacity # <<>> /\ capacity[1].revision = p.revision THEN UNCHANGED <<draft, edited>>
       ELSE draft' = <<FormOf(p)>> /\ edited' = {}

CapacityLoaded ==
    /\ polling # <<>> /\ polling[1] = "read"
    /\ polling' = <<>>
    /\ ShowCapacity(polling[2])
    /\ loadError' = FALSE
    /\ UNCHANGED <<policy, saves>>

CapacityLoadFails ==
    /\ polling # <<>>
    /\ polling' = <<>>
    /\ loadError' = TRUE
    /\ UNCHANGED <<policy, capacity, draft, edited, saves>>

\* Left and opened again: the loaded policy is cached, the form is not, and a
\* save goes on without the page.
ReopenCapacity ==
    /\ capacity # <<>>
    /\ draft' = <<FormOf(capacity[1])>>
    /\ edited' = {}
    /\ saves' = {[s EXCEPT !.own = FALSE] : s \in saves}
    /\ UNCHANGED <<policy, capacity, loadError, polling>>

-----------------------------------------------------------------------------
(* The form *)

FormShown == draft # <<>> /\ ~loadError

Edit(fields, d) ==
    /\ draft' = <<d>>
    /\ edited' = edited \cup fields
    /\ UNCHANGED <<policy, capacity, loadError, polling, saves>>

setLimit(n) ==
    /\ FormShown
    /\ Edit({"limit"}, [draft[1] EXCEPT !.limit = n])

\* Leaving maintenance ends the pause, a pause begins maintenance.
setMaintenance(on) ==
    /\ FormShown
    /\ Edit({"maintenance"} \cup {f \in {"paused"} : ~on},
            [draft[1] EXCEPT !.maintenance = on, !.paused = IF on THEN @ ELSE FALSE])

setPaused(on) ==
    /\ FormShown
    /\ Edit({"paused"} \cup {f \in {"maintenance"} : on},
            [draft[1] EXCEPT !.paused = on, !.maintenance = IF on THEN TRUE ELSE @])

\* A change of mode against the policy as loaded is confirmed first; without
\* the confirmation nothing happens.
SaveCapacity ==
    /\ FormShown
    /\ Valid(draft[1])
    /\ draft[1] # FormOf(capacity[1])
    /\ \A s \in saves : ~s.own
    /\ Cardinality(saves) < MaxSaves
    /\ saves' = saves \cup {[body |-> draft[1], own |-> TRUE, done |-> FALSE]}
    /\ UNCHANGED <<policy, capacity, loadError, polling, draft, edited>>

-----------------------------------------------------------------------------
(* The service *)

UpdateSystemCapacity(p) ==
    /\ policy.revision < MaxRevision
    /\ policy' = [f \in PolicyFields \cup {"revision"} |-> IF f = "revision" THEN policy.revision + 1 ELSE p[f]]

adminUpdateSystemCapacity(s) ==
    /\ ~s.done
    /\ UpdateSystemCapacity(s.body)
    /\ saves' = (saves \ {s}) \cup {[s EXCEPT !.done = TRUE]}
    /\ UNCHANGED <<capacity, loadError, polling, draft, edited>>

\* The answer invalidates the query, which is sent again in place of a poll
\* under way. The answer itself is not used.
SaveCapacityAnswered(s) ==
    /\ s.done
    /\ saves' = saves \ {s}
    /\ polling' = <<"sent">>
    /\ UNCHANGED <<policy, capacity, loadError, draft, edited>>

\* The request is lost or refused, or the answer after the write.
SaveCapacityFails(s) ==
    /\ saves' = saves \ {s}
    /\ UNCHANGED <<policy, capacity, loadError, polling, draft, edited>>

AnotherAdministrator(p) ==
    /\ Valid(p)
    /\ UpdateSystemCapacity(p)
    /\ UNCHANGED <<capacity, loadError, polling, draft, edited, saves>>

CapacityNext ==
    \/ PollCapacity
    \/ adminSystemCapacity
    \/ CapacityLoaded
    \/ CapacityLoadFails
    \/ ReopenCapacity
    \/ \E n \in 0..MaxLimit : setLimit(n)
    \/ \E on \in BOOLEAN : setMaintenance(on)
    \/ \E on \in BOOLEAN : setPaused(on)
    \/ SaveCapacity
    \/ \E s \in saves : adminUpdateSystemCapacity(s)
    \/ \E s \in saves : SaveCapacityAnswered(s)
    \/ \E s \in saves : SaveCapacityFails(s)
    \/ \E p \in Drafts : AnotherAdministrator(p)

CapacitySpec == CapacityInit /\ [][CapacityNext]_capacityVars

-----------------------------------------------------------------------------
(* Properties *)

Saves == [body : Drafts, own : BOOLEAN, done : BOOLEAN]

CapacityTypeOK ==
    /\ FormOf(policy) \in Drafts /\ policy.revision \in 1..MaxRevision
    /\ capacity # <<>> => FormOf(capacity[1]) \in Drafts
    /\ draft # <<>> => draft[1] \in Drafts /\ capacity # <<>>
    /\ edited \subseteq PolicyFields /\ loadError \in BOOLEAN
    /\ saves \subseteq Saves

\* The page writes the whole policy back, yet against the revision it shows a
\* save changes only what was edited since that revision arrived: a value of an
\* older revision never returns with it.
SavesOnlyEdits ==
    [][\A s \in saves' \ saves : s.own /\ ~s.done =>
          \A f \in PolicyFields \ edited : s.body[f] = capacity[1][f]]_capacityVars

-----------------------------------------------------------------------------
(* Why they hold, as an inductive invariant *)

Read == polling # <<>> /\ polling[1] = "read"

\* Loads and reads are of this revision or of an older one.
KnownPolicies ==
    /\ policy.revision \in Nat
    /\ capacity # <<>> => capacity[1].revision \in 0..policy.revision
    /\ Read => polling[2].revision \in 0..policy.revision

\* A revision number names one policy.
RevisionNamesPolicy ==
    /\ capacity # <<>> /\ capacity[1].revision = policy.revision => capacity[1] = policy
    /\ Read /\ polling[2].revision = policy.revision => polling[2] = policy
    /\ Read /\ capacity # <<>> /\ capacity[1].revision = polling[2].revision => capacity[1] = polling[2]

\* The form shows the loaded revision, except in the fields that were edited.
FormFollowsRevision ==
    /\ draft # <<>> => capacity # <<>> /\ draft[1] = FormOf(draft[1])
    /\ draft # <<>> => \A f \in PolicyFields \ edited : draft[1][f] = capacity[1][f]

RevisionsAgree == KnownPolicies /\ RevisionNamesPolicy /\ FormFollowsRevision

\* What the service read is a policy.
PolicyRead == Read => FormOf(polling[2]) \in Drafts

CapacityInv == CapacityTypeOK /\ PolicyRead /\ RevisionsAgree

=============================================================================
