-------------------------- MODULE TaskGraphProofs --------------------------
(***************************************************************************)
(* Facts about the operators of TaskGraph, for every number of tasks.      *)
(* ToSkip is a least fixpoint: these lemmas say that it is closed, that    *)
(* everything in it has a reason to be there, and what follows for the     *)
(* graph after skipDependentsOfFailed.                                     *)
(***************************************************************************)
EXTENDS TaskGraph, FiniteSetTheorems, TLAPS

\* Every subset of the tasks is finite, so counting them makes sense.
LEMMA TasksFinite == \A S \in SUBSET Tasks : IsFiniteSet(S)
<1>1. IsFiniteSet(Tasks)
  BY NumTasksAssumption, FS_Interval DEF Tasks
<1>2. QED BY <1>1, FS_Subset

\* The set the loop skips is closed: one more pass would change nothing
\* (the loop's exit condition "changed = false").
LEMMA ToSkipClosed ==
  ASSUME NEW st, NEW deps, \A t \in Tasks : deps[t] \subseteq Tasks
  PROVE  ClosedUnderSkipping(ToSkip(st, deps), st, deps)
<1> SUFFICES ASSUME NEW t \in Tasks, st[t] = "pending",
                    \/ HasBrokenDependency(t, st, deps)
                    \/ deps[t] \cap ToSkip(st, deps) # {},
                    NEW S \in SUBSET Tasks, ClosedUnderSkipping(S, st, deps)
             PROVE  t \in S
  BY DEF ClosedUnderSkipping, ToSkip
<1>1. CASE HasBrokenDependency(t, st, deps)
  BY <1>1 DEF ClosedUnderSkipping
<1>2. CASE deps[t] \cap ToSkip(st, deps) # {}
  <2>1. PICK d \in deps[t] : d \in ToSkip(st, deps)
    BY <1>2
  <2>2. d \in S
    BY <2>1 DEF ToSkip
  <2>3. QED BY <2>1, <2>2 DEF ClosedUnderSkipping
<1>3. QED BY <1>1, <1>2

\* Nothing is skipped without a reason: a skipped task has a dependency that
\* was broken before the loop or is skipped by it.
LEMMA ToSkipJustified ==
  ASSUME NEW st, NEW deps, \A u \in Tasks : deps[u] \subseteq Tasks,
         NEW t \in ToSkip(st, deps)
  PROVE  HasBrokenDependency(t, st, deps) \/ deps[t] \cap ToSkip(st, deps) # {}
<1> DEFINE S == ToSkip(st, deps) \ {t}
<1>1. SUFFICES ASSUME ~ HasBrokenDependency(t, st, deps),
                      deps[t] \cap ToSkip(st, deps) = {}
               PROVE  FALSE
  OBVIOUS
<1>2. ClosedUnderSkipping(S, st, deps)
  <2>1. SUFFICES ASSUME NEW u \in Tasks, st[u] = "pending",
                        HasBrokenDependency(u, st, deps) \/ deps[u] \cap S # {}
                 PROVE  u \in S
    BY DEF ClosedUnderSkipping
  <2>2. u \in ToSkip(st, deps)
    BY <2>1, ToSkipClosed DEF ClosedUnderSkipping
  <2>3. u # t
    BY <1>1, <2>1
  <2>4. QED BY <2>2, <2>3
<1>3. S \in SUBSET Tasks
  BY DEF ToSkip
<1>4. t \in S
  BY <1>2, <1>3 DEF ToSkip
<1>5. QED BY <1>4

\* What skipDependentsOfFailed does to one status: pending may become skipped,
\* and a status that stays pending has no broken dependency left.
LEMMA SkipDependentsEffect ==
  ASSUME NEW st \in [Tasks -> TaskStatus], NEW deps,
         \A u \in Tasks : deps[u] \subseteq Tasks,
         NEW after, after = SkipDependentsOfFailed(st, deps)
  PROVE  /\ after \in [Tasks -> TaskStatus]
         /\ \A t \in Tasks : st[t] # "pending" => after[t] = st[t]
         /\ \A t \in Tasks : st[t] = "pending" => after[t] \in {"pending", "skipped"}
         /\ \A t \in Tasks : after[t] = "pending" =>
              st[t] = "pending" /\ ~ HasBrokenDependency(t, after, deps)
         /\ \A t \in Tasks : st[t] = "pending" /\ after[t] = "skipped" =>
              HasBrokenDependency(t, after, deps)
<1> DEFINE Skips == ToSkip(st, deps)
<1>1. after = [t \in Tasks |-> IF t \in Skips THEN "skipped" ELSE st[t]]
  BY DEF SkipDependentsOfFailed
<1>2. \A t \in Skips : t \in Tasks /\ st[t] = "pending"
  BY DEF ToSkip
<1>3. \A d \in Tasks : after[d] \in BrokenStatus <=> st[d] \in BrokenStatus \/ d \in Skips
  BY <1>1, <1>2 DEF BrokenStatus
<1>4. after \in [Tasks -> TaskStatus]
  BY <1>1 DEF TaskStatus
<1>5. ASSUME NEW t \in Tasks, after[t] = "pending"
      PROVE  st[t] = "pending" /\ ~ HasBrokenDependency(t, after, deps)
  <2>1. st[t] = "pending" /\ t \notin Skips
    BY <1>1, <1>5
  <2>2. ~ HasBrokenDependency(t, st, deps) /\ deps[t] \cap Skips = {}
    BY <2>1, ToSkipClosed DEF ClosedUnderSkipping
  <2>3. QED BY <2>1, <2>2, <1>3 DEF HasBrokenDependency
<1>6. ASSUME NEW t \in Tasks, st[t] = "pending", after[t] = "skipped"
      PROVE  HasBrokenDependency(t, after, deps)
  <2>1. t \in Skips
    BY <1>1, <1>6
  <2>2. HasBrokenDependency(t, st, deps) \/ deps[t] \cap Skips # {}
    BY <2>1, ToSkipJustified
  <2>3. QED BY <2>2, <1>3 DEF HasBrokenDependency
<1>7. QED BY <1>1, <1>2, <1>4, <1>5, <1>6

============================================================================
