------------------------- MODULE EvaluationCriteria -------------------------
(***************************************************************************)
(* One criteria version of packages/modules/evaluation                     *)
(* (evaluation-criteria.service.ts): draft edits and publication by        *)
(* concurrent requests, each a database transaction that takes the version *)
(* row FOR UPDATE, and the runs that list the criteria of a published      *)
(* version.  The database is read committed: a statement sees what was     *)
(* committed when it started, a transaction's writes appear at its commit. *)
(***************************************************************************)
EXTENDS Naturals

CONSTANTS
    Clients,      \* concurrent requests
    Criteria,     \* criterion keys of the version
    Readers,      \* runs admitted against the version
    NoClient

ASSUME NoClientAssumption == NoClient \notin Clients

VARIABLES
    (* committed state *)
    publishedAt,  \* publishedAt is set
    description,  \* revision of the version's own columns
    content,      \* revision of each criterion, 0 when there is no such row
    lock,         \* the transaction holding the version row
    (* each request *)
    pc, op, target,
    (* the rubric each run last listed; empty before it is admitted *)
    admitted, rubric

vars == <<publishedAt, description, content, lock, pc, op, target, admitted, rubric>>
dbVars == <<publishedAt, description, content>>
readerVars == <<admitted, rubric>>

Ops == {"updateVersion", "publishVersion", "addCriterion", "updateCriterion",
        "removeCriterion"}
Revisions == 0 .. 2     \* bound: edits alternate between revisions 1 and 2
InTransaction == {"check", "count", "apply", "commit"}

\* Types, and: the lock belongs to the one transaction in progress.
CriteriaTypeOK ==
    /\ publishedAt \in BOOLEAN
    /\ description \in Revisions
    /\ content \in [Criteria -> Revisions]
    /\ lock \in Clients \union {NoClient}
    /\ pc \in [Clients -> {"idle", "find", "lock", "conditional"} \union InTransaction]
    /\ op \in [Clients -> Ops]
    /\ target \in [Clients -> Criteria]
    /\ admitted \in [Readers -> BOOLEAN]
    /\ rubric \in [Readers -> [Criteria -> Revisions]]
    /\ \A c \in Clients : pc[c] \in InTransaction <=> lock = c

NoCriteria == [k \in Criteria |-> 0]

\* createVersion: a draft without criteria.
Init ==
    /\ publishedAt = FALSE
    /\ description = 1
    /\ content = NoCriteria
    /\ lock = NoClient
    /\ pc = [c \in Clients |-> "idle"]
    /\ op = [c \in Clients |-> "updateVersion"]
    /\ \E k \in Criteria : target = [c \in Clients |-> k]
    /\ admitted = [r \in Readers |-> FALSE]
    /\ rubric = [r \in Readers |-> NoCriteria]

-----------------------------------------------------------------------------
Goto(c, l) == pc' = [pc EXCEPT ![c] = l]
Release(c) == Goto(c, "idle") /\ lock' = NoClient
Edited(v) == IF v = 1 THEN 2 ELSE 1

\* Where a request begins: most take the row lock first, the edits of an
\* existing criterion look it up before.
FirstStep == [updateVersion |-> "conditional", publishVersion |-> "lock",
              addCriterion |-> "lock", updateCriterion |-> "find",
              removeCriterion |-> "find"]

Submit(c, o, k) ==
    /\ pc[c] = "idle"
    /\ op' = [op EXCEPT ![c] = o]
    /\ target' = [target EXCEPT ![c] = k]
    /\ Goto(c, FirstStep[o])
    /\ UNCHANGED <<dbVars, lock, readerVars>>

\* updateVersion is one conditional statement; it waits for the row lock and
\* then re-evaluates its condition on the committed row.
UpdateVersion(c) ==
    /\ pc[c] = "conditional" /\ lock = NoClient
    /\ description' = IF publishedAt THEN description ELSE Edited(description)
    /\ Goto(c, "idle")
    /\ UNCHANGED <<publishedAt, content, lock, op, target, readerVars>>

\* The criterion is looked up before the version row is locked.
FindCriterion(c) ==
    /\ pc[c] = "find"
    /\ Goto(c, IF content[target[c]] = 0 THEN "idle" ELSE "lock")
    /\ UNCHANGED <<dbVars, lock, op, target, readerVars>>

\* Mutant: a plain SELECT, which takes no row lock.
ReadVersion(c) ==
    /\ pc[c] = "lock"
    /\ lock' = c
    /\ Goto(c, "check")
    /\ UNCHANGED <<dbVars, op, target, readerVars>>

\* SELECT ... FOR UPDATE.
LockVersion(c) ==
    /\ pc[c] = "lock" /\ lock = NoClient
    /\ lock' = c
    /\ Goto(c, "check")
    /\ UNCHANGED <<dbVars, op, target, readerVars>>

\* Mutant: the rejection keeps the lock.
CheckKeepsLock(c) ==
    /\ pc[c] = "check"
    /\ Goto(c, IF publishedAt THEN "idle"
               ELSE IF op[c] = "publishVersion" THEN "count" ELSE "apply")
    /\ UNCHANGED <<dbVars, lock, op, target, readerVars>>

\* Under the lock: a published version rejects publication and edits alike.
CheckDraft(c) ==
    /\ pc[c] = "check"
    /\ IF publishedAt
       THEN Release(c)
       ELSE /\ Goto(c, IF op[c] = "publishVersion" THEN "count" ELSE "apply")
            /\ UNCHANGED lock
    /\ UNCHANGED <<dbVars, op, target, readerVars>>

CountCriteria(c) ==
    /\ pc[c] = "count"
    /\ IF content = NoCriteria THEN Release(c)
                               ELSE Goto(c, "apply") /\ UNCHANGED lock
    /\ UNCHANGED <<dbVars, op, target, readerVars>>

\* The write is refused when the criterion key exists already (add), or when
\* its row is gone since it was found (update, remove).
Refused(c) ==
    \/ op[c] = "addCriterion" /\ content[target[c]] # 0
    \/ op[c] \in {"updateCriterion", "removeCriterion"} /\ content[target[c]] = 0

Apply(c) ==
    /\ pc[c] = "apply"
    /\ IF Refused(c) THEN Release(c) ELSE Goto(c, "commit") /\ UNCHANGED lock
    /\ UNCHANGED <<dbVars, op, target, readerVars>>

\* The content of the target criterion after the transaction.
Revised(c) ==
    LET old == content[target[c]] IN
    IF op[c] = "addCriterion" THEN 1
    ELSE IF op[c] = "removeCriterion" THEN 0
    ELSE IF op[c] = "updateCriterion" THEN Edited(old) ELSE old

Commit(c) ==
    /\ pc[c] = "commit"
    /\ publishedAt' = (publishedAt \/ op[c] = "publishVersion")
    /\ content' = [content EXCEPT ![target[c]] = Revised(c)]
    /\ Release(c)
    /\ UNCHANGED <<description, op, target, readerVars>>

\* The transaction times out, the statement fails or the process dies.
Rollback(c) ==
    /\ pc[c] \in InTransaction
    /\ Release(c)
    /\ UNCHANGED <<dbVars, op, target, readerVars>>

\* requirePublishedVersion at admission (run.service startRun).
AdmitRun(r) ==
    /\ ~admitted[r] /\ publishedAt
    /\ admitted' = [admitted EXCEPT ![r] = TRUE]
    /\ rubric' = [rubric EXCEPT ![r] = content]
    /\ UNCHANGED <<dbVars, lock, pc, op, target>>

-----------------------------------------------------------------------------
\* What a request does once it is submitted, without a failure.
Request(c) ==
    \/ UpdateVersion(c) \/ FindCriterion(c) \/ LockVersion(c) \/ CheckDraft(c)
    \/ CountCriteria(c) \/ Apply(c) \/ Commit(c)

Next ==
    \/ \E c \in Clients :
           \/ \E o \in Ops, k \in Criteria : Submit(c, o, k)
           \/ Request(c) \/ Rollback(c)
    \/ \E r \in Readers : AdmitRun(r)

Spec == Init /\ [][Next]_vars

\* The database serves lock waiters in turn, and a request keeps running.
RequestsAreServed ==
    \A c \in Clients :
        /\ WF_vars(Request(c))
        /\ SF_vars(LockVersion(c) \/ UpdateVersion(c))

FairSpec == Spec /\ RequestsAreServed

-----------------------------------------------------------------------------
(* Properties *)

\* Publication is one-way and freezes the version and its criteria against
\* every edit in flight, those that found their criterion earlier included.
PublishedIsFrozen ==
    [][publishedAt => UNCHANGED dbVars]_vars

\* An empty rubric is never published, even when the last criterion is removed
\* while the publication is under way.
PublishedIsNotEmpty == publishedAt => content # NoCriteria

\* What a run listed when it was admitted is what its result and its findings
\* are validated against later.
RubricIsStable == \A r \in Readers : admitted[r] => rubric[r] = content

\* No request waits forever for the version row.
RequestsFinish == \A c \in Clients : pc[c] # "idle" ~> pc[c] = "idle"

\* The rubric of a published version exists and is the one its runs listed.
RubricHolds == PublishedIsNotEmpty /\ RubricIsStable
=============================================================================
