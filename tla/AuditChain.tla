----------------------------- MODULE AuditChain -----------------------------
(***************************************************************************)
(* The hash chain of the audit log (src/security/audit-log.ts), the        *)
(* processes that write it, and the page's "verify" button                 *)
(* (src/dashboard/).  Nobody tampers with anything here: the question is   *)
(* what verifyIntegrity says of a log only the program has written.        *)
(*                                                                         *)
(* A process reads the head of the chain when it opens the log and keeps   *)
(* it in memory; every event of its bus becomes a row.  A hash is modelled *)
(* by what went into it: the sequence of the data hashed so far, which     *)
(* makes different chains different and nothing else.                      *)
(*                                                                         *)
(* A row without a target is hashed with no "target" member and read back  *)
(* with a null one.                                                        *)
(***************************************************************************)
EXTENDS Naturals, FiniteSets, SequencesExt

CONSTANTS
  Writers,      \* processes: gateways old and new, "security audit"
  MaxRows,      \* bound on rows written
  MaxOpens,     \* bound on processes started
  LastInstant,  \* bound on the clock
  MaxSetBacks   \* bound on corrections of the clock backwards

ASSUME AuditChainAssumption ==
  /\ MaxRows \in Nat /\ MaxOpens \in Nat /\ LastInstant \in Nat /\ MaxSetBacks \in Nat

VARIABLES
  auditLog,    \* audit_log, in rowid order
  head,        \* per process: lastHash, or Closed
  clock,       \* Date.now()
  badge,       \* what the page shows of the chain
  opens,
  setBacks,
  overlapped   \* have two processes ever had the log open at once

auditVars == <<auditLog, head, clock, badge, opens, setBacks, overlapped>>

GENESIS_HASH == <<>>
Closed == <<"closed">>
Open(w) == head[w] # Closed

\* JSON.stringify({ id, timestamp, event, actor, target }), of what append has
\* in its hands; an undefined member is left out.
ChainData(row) == <<row.id, row.timestamp, row.target>>

\* ... and of what comes back from the table, where absence is null.
StoredData(row) ==
  <<row.id, row.timestamp, IF row.target = "absent" THEN "null" ELSE row.target>>

HashChainEntry(previous, data) == Append(previous, data)

\* ORDER BY timestamp ASC, rowid ASC
Before(i, j) ==
  \/ auditLog[i].timestamp < auditLog[j].timestamp
  \/ auditLog[i].timestamp = auditLog[j].timestamp /\ i < j
Nth(n) == CHOOSE i \in DOMAIN auditLog : Cardinality({j \in DOMAIN auditLog : Before(j, i)}) = n - 1
ByTime == [n \in DOMAIN auditLog |-> auditLog[Nth(n)]]

LastHash == IF auditLog = <<>> THEN GENESIS_HASH ELSE Last(ByTime).hash

\* verifyIntegrity: every row follows the one before it and hashes to its hash.
VerifyIntegrity ==
  LET sorted == ByTime
      Expected(i) == IF i = 1 THEN GENESIS_HASH ELSE sorted[i - 1].hash
  IN  \A i \in DOMAIN sorted :
        /\ sorted[i].previousHash = Expected(i)
        /\ sorted[i].hash = HashChainEntry(Expected(i), StoredData(sorted[i]))

AuditInit ==
  /\ auditLog = <<>>
  /\ head = [w \in Writers |-> Closed]
  /\ clock = 0
  /\ badge = "none"
  /\ opens = 0 /\ setBacks = 0
  /\ overlapped = FALSE

\* new AuditLog(dataDir)
OpenLog(w) ==
  /\ ~ Open(w) /\ opens < MaxOpens
  /\ opens' = opens + 1
  /\ head' = [head EXCEPT ![w] = LastHash]
  /\ overlapped' = (overlapped \/ \E v \in Writers : Open(v))
  /\ UNCHANGED <<auditLog, clock, badge, setBacks>>

NewRow(w, target) ==
  LET row == [id |-> Len(auditLog) + 1, timestamp |-> clock, target |-> target,
              previousHash |-> head[w], hash |-> GENESIS_HASH]
  IN  [row EXCEPT !.hash = HashChainEntry(head[w], ChainData(row))]

\* Mutant of AppendRow: the head in memory is not moved on.
AppendRowOnly(w, target) ==
  /\ Open(w) /\ Len(auditLog) < MaxRows
  /\ auditLog' = Append(auditLog, NewRow(w, target))
  /\ UNCHANGED <<head, clock, badge, opens, setBacks, overlapped>>

\* append(): an event of the process's bus, with or without a target.
AppendRow(w, target) ==
  /\ Open(w) /\ Len(auditLog) < MaxRows
  /\ LET row == NewRow(w, target)
     IN  /\ auditLog' = Append(auditLog, row)
         /\ head' = [head EXCEPT ![w] = row.hash]
  /\ UNCHANGED <<clock, badge, opens, setBacks, overlapped>>

\* close(), or the process dies: what it wrote stays.
CloseLog(w) ==
  /\ Open(w)
  /\ head' = [head EXCEPT ![w] = Closed]
  /\ UNCHANGED <<auditLog, clock, badge, opens, setBacks, overlapped>>

\* GET /audit/verify, from the button of a page.
ClickVerify ==
  /\ \E w \in Writers : Open(w)
  /\ badge' = IF VerifyIntegrity THEN "intact" ELSE "tampered"
  /\ UNCHANGED <<auditLog, head, clock, opens, setBacks, overlapped>>

\* The button's request came to nothing.
VerifyUnanswered ==
  /\ badge' = "error"
  /\ UNCHANGED <<auditLog, head, clock, opens, setBacks, overlapped>>

ClockAdvances ==
  /\ clock < LastInstant
  /\ clock' = clock + 1
  /\ UNCHANGED <<auditLog, head, badge, opens, setBacks, overlapped>>

\* The machine's clock is corrected.
ClockSetBack ==
  /\ clock > 0 /\ setBacks < MaxSetBacks
  /\ clock' = clock - 1
  /\ setBacks' = setBacks + 1
  /\ UNCHANGED <<auditLog, head, badge, opens, overlapped>>

AuditNext ==
  \/ \E w \in Writers : \/ OpenLog(w)
                        \/ CloseLog(w)
                        \/ \E target \in {"absent", "given"} : AppendRow(w, target)
  \/ ClickVerify
  \/ VerifyUnanswered
  \/ ClockAdvances
  \/ ClockSetBack

AuditSpec == AuditInit /\ [][AuditNext]_auditVars

----------------------------------------------------------------------------
(* Properties *)

\* Rows are numbered as they came, and an open process holds the hash of a row.
AuditTypeOK ==
  /\ \A i \in DOMAIN auditLog :
       /\ auditLog[i].id = i /\ auditLog[i].timestamp \in 0 .. LastInstant
       /\ auditLog[i].target \in {"absent", "given"}
  /\ \A w \in Writers :
       Open(w) => head[w] \in {GENESIS_HASH} \cup {auditLog[i].hash : i \in DOMAIN auditLog}
  /\ clock \in 0 .. LastInstant
  /\ badge \in {"none", "intact", "tampered", "error"}
  /\ opens \in 0 .. MaxOpens /\ setBacks \in 0 .. MaxSetBacks
  /\ overlapped \in BOOLEAN

\* "Tampered!" on the page always has one of three causes: a row without a
\* target, two processes with the log open at once, a clock set back.  Restarts
\* alone, however many and whether or not the log was closed, raise no alarm.
FalseAlarmHasACause ==
  badge = "tampered" =>
    \/ \E i \in DOMAIN auditLog : auditLog[i].target = "absent"
    \/ overlapped
    \/ setBacks > 0

\* "Returns true if the entire chain is intact" (verifyIntegrity): a log that
\* nobody touched is never reported as tampered with.
IntactIsValid == badge # "tampered"
=============================================================================
