--------------------------- MODULE MonitorProofs ---------------------------
(***************************************************************************)
(* Theorems about Monitor, for any number of identities, tokens and        *)
(* concurrent requests.                                                    *)
(*                                                                         *)
(* The invariants the runs check are not inductive by themselves: what a   *)
(* handler will write depends on its locals, so each is strengthened by    *)
(* what the locals of every handler and of the cron run satisfy at each    *)
(* program counter.                                                        *)
(***************************************************************************)
EXTENDS Monitor, TLAPS

\* Program counters at which a verify has generated its manage token; those
\* before it has stored the record; those at which it has proved the host.
Minted     == {"v_drop", "v_blind", "v_idx", "v_active", "v_pend", "v_mail"}
PrePut     == {"v_drop", "v_blind", "v_idx", "v_active"}
PastProof  == VerifyPcs \ {"v_own"}
HasLink    == VerifyPcs \cup {"s_drop", "s_putidx", "s_mail", "s_undo", "s_undoidx"}
OwnLink    == VerifyPcs \cup {"s_putidx", "s_mail", "s_undo", "s_undoidx"}
InHand     == {"prove", "renew", "scan", "alert", "save"}

\* What a handler's locals hold at each program counter.
LocalsOK ==
  /\ \A r \in Reqs :
       /\ pc[r] # "idle" => who[r] \in Identities
       /\ pc[r] \in HasLink => vtok[r] \in VTokens
       /\ pc[r] \in Minted \cup UnsubPcs => mtok[r] \in MTokens
       /\ pc[r] \in {"s_active", "v_drop"} => found[r] \in MTokens
  /\ cronPc \in InHand => cur \in MTokens /\ due[cur] \in Record

TypeInv == TypeOK /\ LocalsOK

\* Who the tokens in the hands of a handler belong to.
OwnerInv ==
  /\ TokensKeepTheirOwner
  /\ \A r \in Reqs :
       /\ pc[r] \in OwnLink => issued[vtok[r]] = who[r]
       /\ pc[r] \in Minted \cup UnsubPcs => owner[mtok[r]] = who[r]
  /\ \A m \in MTokens : due[m] # None => due[m].who = owner[m]

\* A verify past its challenge has what its record will need.
AuthInv ==
  /\ OnlyAuthorisedMonitored
  /\ \A r \in Reqs :
       /\ pc[r] \in VerifyPcs => vtok[r] \in mailed
       /\ pc[r] \in PastProof /\ who[r] \in External => vtok[r] \in proved

\* Nobody is about to write a deleted record: only the verify that generated a
\* manage token creates its record, once, and the run holds no copy of it.
GoneInv ==
  /\ \A m \in gone : active[m] = None /\ due[m] = None /\ owner[m] # None
  /\ \A r \in Reqs : pc[r] \in PrePut =>
       /\ active[mtok[r]] = None /\ due[mtok[r]] = None
       /\ mtok[r] \notin gone
       /\ \A s \in Reqs : pc[s] \in PrePut /\ mtok[s] = mtok[r] => s = r
  /\ cronPc = "idle" => \A m \in MTokens : due[m] = None

\* A record the run holds a copy of is as old in KV as the copy, and has the
\* same proof, but for the proof that is about to be written.
CopyInv ==
  /\ \A m \in MTokens : due[m] # None =>
       /\ ~due[m].recent
       /\ active[m] # None =>
            /\ ~active[m].recent
            /\ active[m].proof = due[m].proof \/ (cronPc = "renew" /\ m = cur)
  /\ cronPc = "renew" => due[cur].proof
  /\ cronPc \in {"scan", "alert", "save"} => ~ProofExpired(due[cur])

\* When nothing overlaps.
Alone ==
  /\ \A r, s \in Reqs : pc[r] # "idle" /\ pc[s] # "idle" => r = s
  /\ cronPc # "idle" => \A r \in Reqs : pc[r] = "idle"

\* The blind index and the monitored records agree, but for what the one
\* handler at work has changed so far.
IndexInv ==
  /\ ActiveIsIndexed
  /\ \A r \in Reqs :
       /\ pc[r] = "u_blind" => active[mtok[r]] # None
       /\ pc[r] \in {"u_idx", "u_active"} => blind[who[r]] = None
       /\ pc[r] = "v_drop" => found[r] = blind[who[r]]
       /\ pc[r] \in {"v_blind", "v_idx", "v_active"} =>
            \A m \in MTokens : active[m] # None => active[m].who # who[r]
       /\ pc[r] \in {"v_idx", "v_active", "v_pend", "v_mail"} =>
            blind[who[r]] = mtok[r]
  /\ \A m \in MTokens : due[m] # None => active[m] # None

\* The handler that works alone is subscribing i, past its look at the records.
Subscribing == SubscribePcs \ {"s_active"}

\* A link works while its verify has not stored a record, and after that until
\* it is dropped, when nothing overlaps.
LinkInv ==
  \A r \in Reqs : pc[r] \in VerifyPcs \ {"v_mail"} => pending[vtok[r]] # None

\* A subscription that was cancelled is known to nobody who could write it:
\* only the verify that made its token, or a run with a copy, does.
CancelInv ==
  /\ \A m \in known : owner[m] # None
  /\ \A m \in cancelled :
       /\ active[m] = None /\ owner[m] # None
       /\ \A r \in Reqs : pc[r] \in PrePut => mtok[r] # m

\* The pending index and the links that work agree, but for the link the one
\* handler at work has in hand; and who is monitored has no other link.
PendingInv ==
  /\ \A t \in VTokens : pending[t] # None =>
       \/ pendingIdx[pending[t]] = t
       \/ \E r \in Reqs : pc[r] \in {"s_putidx", "v_active", "v_pend"} /\ vtok[r] = t
  /\ \A m \in MTokens, t \in VTokens :
       active[m] # None /\ pending[t] = active[m].who =>
         \E r \in Reqs : pc[r] = "v_pend" /\ vtok[r] = t
  /\ \A r \in Reqs :
       /\ pc[r] = "s_active" => found[r] = blind[who[r]]
       /\ pc[r] \in Subscribing \cup PrePut \cup {"v_own", "v_scan"} =>
            \A m \in MTokens : active[m] # None => active[m].who # who[r]
       /\ pc[r] = "s_drop" => vtok[r] = pendingIdx[who[r]]
       /\ pc[r] \in {"s_put", "s_undoidx", "v_mail"} \cup UnsubPcs =>
            \A t \in VTokens : pending[t] # who[r]
       /\ pc[r] \in {"s_putidx", "s_mail", "s_undo"} \cup VerifyPcs =>
            \A t \in VTokens : pending[t] = who[r] => t = vtok[r]

-----------------------------------------------------------------------------
(* What the updates of a record keep.                                      *)

\* The updates of schedule.ts:634 and 681-682 and the passing of days keep a
\* record's identity and its link.
LEMMA RecordUpdates ==
  ASSUME NEW rec \in Record
  PROVE  /\ Aged(rec) \in Record /\ Lapsed(rec) \in Record
         /\ Aged(rec).who = rec.who /\ Aged(rec).own = rec.own
         /\ Lapsed(rec).who = rec.who /\ Lapsed(rec).own = rec.own
         /\ Renewed(rec) \in Record /\ Renewed(rec).proof
         /\ Renewed(rec).who = rec.who /\ Renewed(rec).own = rec.own
         /\ Scanned(rec) \in Record
         /\ Scanned(rec).who = rec.who /\ Scanned(rec).own = rec.own
         /\ Scanned(rec).proof = rec.proof
  BY DEF Record, Aged, Lapsed, Renewed, Scanned

-----------------------------------------------------------------------------
(* Type correctness.                                                       *)

\* Nothing is stored and nobody is at work at the start.
LEMMA TypeInit == Init => TypeInv
  BY DEF Init, TypeInv, TypeOK, LocalsOK, CronPcs, HasLink, Minted, UnsubPcs,
         VerifyPcs, InHand

\* Every call of every handler keeps values in their sets, and leaves the
\* locals its next call needs.
LEMMA TypeStep == TypeInv /\ [Next]_vars => TypeInv'
  <1> SUFFICES ASSUME TypeInv, [Next]_vars PROVE TypeInv'
    OBVIOUS
  <1> USE ConstantsAssumption
      DEF TypeInv, TypeOK, LocalsOK, Record, CronPcs, SubscribePcs, VerifyPcs,
          UnsubPcs, HasLink, Minted, InHand, Step, Goto, Finish, DeleteActive,
          CronGoto, CronSkip, CronStop, IsDue, ProofExpired, NeedsProof,
          kv, args, locals, cron, links, tokens, world
  <1>1. ASSUME NEW r \in Reqs, RequestStart(r) PROVE TypeInv'
    <2>1. ASSUME NEW i \in Identities, SubscribeStart(r, i) PROVE TypeInv'
      BY <2>1 DEF SubscribeStart
    <2>2. ASSUME NEW t \in VTokens, VerifyStart(r, t) PROVE TypeInv'
      BY <2>2 DEF VerifyStart
    <2>3. ASSUME NEW m \in MTokens, UnsubscribeAbsent(r, m) PROVE TypeInv'
      BY <2>3 DEF UnsubscribeAbsent
    <2>4. ASSUME NEW m \in MTokens, UnsubscribeStart(r, m) PROVE TypeInv'
      BY <2>4 DEF UnsubscribeStart
    <2>5. QED
      BY <1>1, <2>1, <2>2, <2>3, <2>4 DEF RequestStart
  <1>2. ASSUME NEW r \in Reqs, SubscribeStep(r) PROVE TypeInv'
    <2>1. CASE SubscribeCheckActive(r)
      <3>1. UNCHANGED <<kv, cron, world>>
        BY <2>1 DEF SubscribeCheckActive
      <3>2. CASE Finish(r)
        BY <3>1, <3>2
      <3>3. CASE Goto(r, "s_idx") /\ UNCHANGED args
        BY <2>1, <3>1, <3>3 DEF SubscribeCheckActive
      <3>4. QED
        BY <2>1, <3>2, <3>3 DEF SubscribeCheckActive
    <2>2. CASE SubscribeReadIdx(r)
      BY <2>2 DEF SubscribeReadIdx
    <2>3. CASE SubscribeDropPrevious(r)
      BY <2>3 DEF SubscribeDropPrevious
    <2>4. ASSUME NEW t \in VTokens, SubscribePut(r, t) PROVE TypeInv'
      BY <2>4 DEF SubscribePut
    <2>5. CASE SubscribePutIdx(r)
      BY <2>5 DEF SubscribePutIdx
    <2>6. CASE SubscribeMail(r)
      <3>1. /\ UNCHANGED <<kv, cron, issued, proved, tokens>>
            /\ pc[r] = "s_mail" /\ mailed' \subseteq VTokens
        BY <2>6 DEF SubscribeMail
      <3>2. CASE Finish(r)
        BY <3>1, <3>2
      <3>3. CASE Goto(r, "s_undo") /\ UNCHANGED args
        BY <3>1, <3>3
      <3>4. QED
        BY <2>6, <3>2, <3>3 DEF SubscribeMail
    <2>7. CASE SubscribeUndo(r)
      BY <2>7 DEF SubscribeUndo
    <2>8. CASE SubscribeUndoIdx(r)
      BY <2>8 DEF SubscribeUndoIdx
    <2>9. QED
      BY <1>2, <2>1, <2>2, <2>3, <2>4, <2>5, <2>6, <2>7, <2>8 DEF SubscribeStep
  <1>3. ASSUME NEW r \in Reqs, VerifyStep(r) PROVE TypeInv'
    <2>1. CASE VerifyOwnership(r)
      <3>1. /\ UNCHANGED <<kv, cron, issued, mailed, tokens>>
            /\ pc[r] = "v_own" /\ proved' \subseteq VTokens
        BY <2>1 DEF VerifyOwnership
      <3>2. CASE Finish(r)
        BY <3>1, <3>2
      <3>3. CASE Goto(r, "v_scan") /\ UNCHANGED args
        BY <3>1, <3>3
      <3>4. QED
        BY <2>1, <3>2, <3>3 DEF VerifyOwnership
    <2>2. ASSUME NEW m \in MTokens, NEW ok \in BOOLEAN, VerifyScan(r, m, ok) PROVE TypeInv'
      BY <2>2 DEF VerifyScan
    <2>3. CASE VerifyDropExisting(r)
      BY <2>3 DEF VerifyDropExisting
    <2>4. CASE VerifyPutBlind(r)
      BY <2>4 DEF VerifyPutBlind
    <2>5. CASE VerifyDropIdx(r)
      BY <2>5 DEF VerifyDropIdx
    <2>6. CASE VerifyPutActive(r)
      BY <2>6 DEF VerifyPutActive
    <2>7. CASE VerifyDropPending(r)
      BY <2>7 DEF VerifyDropPending
    <2>8. CASE VerifyMail(r)
      BY <2>8 DEF VerifyMail
    <2>9. QED
      BY <1>3, <2>1, <2>2, <2>3, <2>4, <2>5, <2>6, <2>7, <2>8 DEF VerifyStep
  <1>4. ASSUME NEW r \in Reqs, UnsubscribeStep(r) PROVE TypeInv'
    <2>1. CASE UnsubscribeDropBlind(r)
      BY <2>1 DEF UnsubscribeDropBlind
    <2>2. CASE UnsubscribeDropIdx(r)
      BY <2>2 DEF UnsubscribeDropIdx
    <2>3. CASE UnsubscribeDropActive(r)
      BY <2>3 DEF UnsubscribeDropActive
    <2>4. QED
      BY <1>4, <2>1, <2>2, <2>3 DEF UnsubscribeStep
  <1>5. ASSUME NEW r \in Reqs, Killed(r) PROVE TypeInv'
    BY <1>5 DEF Killed
  <1>6. CASE CronList
    BY <1>6 DEF CronList
  <1>7. CASE CronStep
    <2>1. ASSUME NEW m \in MTokens, CronLoad(m) PROVE TypeInv'
      BY <2>1 DEF CronLoad
    <2>2. ASSUME NEW m \in MTokens, CronTake(m) PROVE TypeInv'
      BY <2>2 DEF CronTake
    <2>3. CASE CronLoaded
      BY <2>3 DEF CronLoaded
    <2>4. CASE CronProve
      <3>1. /\ UNCHANGED <<kv, locals, keys, issued, mailed, tokens>>
            /\ cronPc = "prove"
        BY <2>4 DEF CronProve
      <3>2. CASE /\ due' = [due EXCEPT ![cur] = Renewed(@)]
                 /\ proved' = proved \cup {due[cur].own}
                 /\ CronGoto("renew") /\ UNCHANGED cur
        BY <3>1, <3>2, RecordUpdates
      <3>3. CASE CronSkip /\ UNCHANGED proved
        BY <3>1, <3>3
      <3>4. QED
        BY <2>4, <3>2, <3>3 DEF CronProve
    <2>5. CASE CronRenew
      BY <2>5 DEF CronRenew
    <2>6. CASE CronScan
      BY <2>6 DEF CronScan
    <2>7. CASE CronAlert
      BY <2>7 DEF CronAlert
    <2>8. CASE CronSave
      BY <2>8, RecordUpdates DEF CronSave
    <2>9. CASE CronWriteFails
      BY <2>9 DEF CronWriteFails
    <2>10. CASE CronEnd
      BY <2>10 DEF CronEnd
    <2>11. CASE CronKilled
      BY <2>11 DEF CronKilled
    <2>12. QED
      BY <1>7, <2>1, <2>2, <2>3, <2>4, <2>5, <2>6, <2>7, <2>8, <2>9,
         <2>10, <2>11 DEF CronStep
  <1>8. CASE Expiry
    <2>1. ASSUME NEW t \in VTokens, PendingExpires(t) PROVE TypeInv'
      BY <2>1 DEF PendingExpires
    <2>2. ASSUME NEW i \in Identities, PendingIdxExpires(i) PROVE TypeInv'
      BY <2>2 DEF PendingIdxExpires
    <2>3. QED
      BY <1>8, <2>1, <2>2 DEF Expiry
  <1>9. ASSUME NEW old \in SUBSET MTokens, DayPasses(old) PROVE TypeInv'
    <2>1. ASSUME NEW m \in MTokens, active[m] # None
          PROVE  Aged(active[m]) \in Record /\ Lapsed(active[m]) \in Record
      BY <2>1, RecordUpdates
    <2>2. QED
      BY <1>9, <2>1 DEF DayPasses
  <1>10. CASE UNCHANGED vars
    BY <1>10 DEF vars
  <1>11. QED
    BY <1>1, <1>2, <1>3, <1>4, <1>5, <1>6, <1>7, <1>8, <1>9, <1>10
    DEF Next, RequestStep, DayStep

\* Every value the handlers store has the type its readers assume, whatever
\* interleaves and whatever is killed.
THEOREM TypeCorrect == Spec => []TypeOK
  <1>1. TypeInv => TypeOK
    BY DEF TypeInv
  <1>2. QED
    BY TypeInit, TypeStep, <1>1, PTL DEF Spec

-----------------------------------------------------------------------------
(* Token ownership.                                                        *)

\* No token has been made at the start.
LEMMA OwnerInit == Init => OwnerInv
  BY ConstantsAssumption
     DEF Init, OwnerInv, TokensKeepTheirOwner, OwnLink, Minted, UnsubPcs,
         VerifyPcs

\* Every KV write of schedule.ts stores a token under its own identity's keys.
LEMMA OwnerStep == TypeInv /\ OwnerInv /\ [Next]_vars => OwnerInv'
  <1> SUFFICES ASSUME TypeInv, OwnerInv, [Next]_vars PROVE OwnerInv'
    OBVIOUS
  <1> USE ConstantsAssumption
      DEF TypeInv, TypeOK, LocalsOK, Record, OwnerInv, TokensKeepTheirOwner,
          CronPcs, SubscribePcs, VerifyPcs, UnsubPcs, HasLink, OwnLink, Minted,
          InHand, Step, Goto, Finish, DeleteActive, CronGoto, CronSkip,
          CronStop, kv, args, locals, cron, links, tokens, world
  <1>1. ASSUME NEW r \in Reqs, RequestStart(r) PROVE OwnerInv'
    <2>1. ASSUME NEW i \in Identities, SubscribeStart(r, i) PROVE OwnerInv'
      BY <2>1 DEF SubscribeStart
    <2>2. ASSUME NEW t \in VTokens, VerifyStart(r, t) PROVE OwnerInv'
      BY <2>2 DEF VerifyStart
    <2>3. ASSUME NEW m \in MTokens, UnsubscribeAbsent(r, m) PROVE OwnerInv'
      BY <2>3 DEF UnsubscribeAbsent
    <2>4. ASSUME NEW m \in MTokens, UnsubscribeStart(r, m) PROVE OwnerInv'
      BY <2>4 DEF UnsubscribeStart
    <2>5. QED
      BY <1>1, <2>1, <2>2, <2>3, <2>4 DEF RequestStart
  <1>2. ASSUME NEW r \in Reqs, SubscribeStep(r) PROVE OwnerInv'
    <2>1. CASE SubscribeCheckActive(r)
      BY <2>1 DEF SubscribeCheckActive
    <2>2. CASE SubscribeReadIdx(r)
      BY <2>2 DEF SubscribeReadIdx
    <2>3. CASE SubscribeDropPrevious(r)
      BY <2>3 DEF SubscribeDropPrevious
    <2>4. ASSUME NEW t \in VTokens, SubscribePut(r, t) PROVE OwnerInv'
      BY <2>4 DEF SubscribePut
    <2>5. CASE SubscribePutIdx(r)
      BY <2>5 DEF SubscribePutIdx
    <2>6. CASE SubscribeMail(r)
      BY <2>6 DEF SubscribeMail
    <2>7. CASE SubscribeUndo(r)
      BY <2>7 DEF SubscribeUndo
    <2>8. CASE SubscribeUndoIdx(r)
      BY <2>8 DEF SubscribeUndoIdx
    <2>9. QED
      BY <1>2, <2>1, <2>2, <2>3, <2>4, <2>5, <2>6, <2>7, <2>8 DEF SubscribeStep
  <1>3. ASSUME NEW r \in Reqs, VerifyStep(r) PROVE OwnerInv'
    <2>1. CASE VerifyOwnership(r)
      BY <2>1 DEF VerifyOwnership
    <2>2. ASSUME NEW m \in MTokens, NEW ok \in BOOLEAN, VerifyScan(r, m, ok) PROVE OwnerInv'
      BY <2>2 DEF VerifyScan
    <2>3. CASE VerifyDropExisting(r)
      BY <2>3 DEF VerifyDropExisting
    <2>4. CASE VerifyPutBlind(r)
      BY <2>4 DEF VerifyPutBlind
    <2>5. CASE VerifyDropIdx(r)
      BY <2>5 DEF VerifyDropIdx
    <2>6. CASE VerifyPutActive(r)
      BY <2>6 DEF VerifyPutActive
    <2>7. CASE VerifyDropPending(r)
      BY <2>7 DEF VerifyDropPending
    <2>8. CASE VerifyMail(r)
      BY <2>8 DEF VerifyMail
    <2>9. QED
      BY <1>3, <2>1, <2>2, <2>3, <2>4, <2>5, <2>6, <2>7, <2>8 DEF VerifyStep
  <1>4. ASSUME NEW r \in Reqs, UnsubscribeStep(r) PROVE OwnerInv'
    <2>1. CASE UnsubscribeDropBlind(r)
      BY <2>1 DEF UnsubscribeDropBlind
    <2>2. CASE UnsubscribeDropIdx(r)
      BY <2>2 DEF UnsubscribeDropIdx
    <2>3. CASE UnsubscribeDropActive(r)
      BY <2>3 DEF UnsubscribeDropActive
    <2>4. QED
      BY <1>4, <2>1, <2>2, <2>3 DEF UnsubscribeStep
  <1>5. ASSUME NEW r \in Reqs, Killed(r) PROVE OwnerInv'
    BY <1>5 DEF Killed
  <1>6. CASE CronList
    BY <1>6 DEF CronList
  <1>7. CASE CronStep
    <2>1. ASSUME NEW m \in MTokens, CronLoad(m) PROVE OwnerInv'
      BY <2>1 DEF CronLoad
    <2>2. ASSUME NEW m \in MTokens, CronTake(m) PROVE OwnerInv'
      BY <2>2 DEF CronTake
    <2>3. CASE CronLoaded
      BY <2>3 DEF CronLoaded
    <2>4. CASE CronProve
      <3>1. Renewed(due[cur]).who = due[cur].who
        BY <2>4, RecordUpdates DEF CronProve
      <3>2. QED
        BY <2>4, <3>1 DEF CronProve
    <2>5. CASE CronRenew
      BY <2>5 DEF CronRenew
    <2>6. CASE CronScan
      BY <2>6 DEF CronScan
    <2>7. CASE CronAlert
      BY <2>7 DEF CronAlert
    <2>8. CASE CronSave
      BY <2>8, RecordUpdates DEF CronSave
    <2>9. CASE CronWriteFails
      BY <2>9 DEF CronWriteFails
    <2>10. CASE CronEnd
      BY <2>10 DEF CronEnd
    <2>11. CASE CronKilled
      BY <2>11 DEF CronKilled
    <2>12. QED
      BY <1>7, <2>1, <2>2, <2>3, <2>4, <2>5, <2>6, <2>7, <2>8, <2>9,
         <2>10, <2>11 DEF CronStep
  <1>8. CASE Expiry
    <2>1. ASSUME NEW t \in VTokens, PendingExpires(t) PROVE OwnerInv'
      BY <2>1 DEF PendingExpires
    <2>2. ASSUME NEW i \in Identities, PendingIdxExpires(i) PROVE OwnerInv'
      BY <2>2 DEF PendingIdxExpires
    <2>3. QED
      BY <1>8, <2>1, <2>2 DEF Expiry
  <1>9. ASSUME NEW old \in SUBSET MTokens, DayPasses(old) PROVE OwnerInv'
    <2>1. ASSUME NEW m \in MTokens, active[m] # None
          PROVE  /\ Aged(active[m]).who = active[m].who
                 /\ Lapsed(active[m]).who = active[m].who
      BY <2>1, RecordUpdates
    <2>2. QED
      BY <1>9, <2>1 DEF DayPasses
  <1>10. CASE UNCHANGED vars
    BY <1>10 DEF vars
  <1>11. QED
    BY <1>1, <1>2, <1>3, <1>4, <1>5, <1>6, <1>7, <1>8, <1>9, <1>10
    DEF Next, RequestStep, DayStep

\* Keys never mix identities, whichever handlers race for them.
THEOREM TokenOwnership == Spec => []TokensKeepTheirOwner
  <1>1. OwnerInv => TokensKeepTheirOwner
    BY DEF OwnerInv
  <1>2. QED
    BY TypeInit, TypeStep, OwnerInit, OwnerStep, <1>1, PTL DEF Spec

-----------------------------------------------------------------------------
(* Authorisation.                                                          *)

\* Nothing is monitored at the start.
LEMMA AuthInit == Init => AuthInv
  BY ConstantsAssumption
     DEF Init, AuthInv, OnlyAuthorisedMonitored, PastProof, VerifyPcs

\* A record is stored only by a verify of its mailed link that is past the
\* challenge, and the copies the run makes and writes back keep that link.
LEMMA AuthStep == TypeInv /\ OwnerInv /\ AuthInv /\ [Next]_vars => AuthInv'
  <1> SUFFICES ASSUME TypeInv, OwnerInv, AuthInv, [Next]_vars PROVE AuthInv'
    OBVIOUS
  <1> USE ConstantsAssumption
      DEF TypeInv, TypeOK, LocalsOK, Record, OwnerInv, TokensKeepTheirOwner,
          AuthInv, OnlyAuthorisedMonitored, Authorised, NeedsProof, PastProof,
          CronPcs, SubscribePcs, VerifyPcs, UnsubPcs, HasLink, OwnLink, Minted,
          InHand, Step, Goto, Finish, DeleteActive, CronGoto, CronSkip,
          CronStop, IsDue, kv, args, locals, cron, links, tokens, world
  <1>1. ASSUME NEW r \in Reqs, RequestStart(r) PROVE AuthInv'
    <2>1. ASSUME NEW i \in Identities, SubscribeStart(r, i) PROVE AuthInv'
      BY <2>1 DEF SubscribeStart
    <2>2. ASSUME NEW t \in VTokens, VerifyStart(r, t) PROVE AuthInv'
      BY <2>2 DEF VerifyStart
    <2>3. ASSUME NEW m \in MTokens, UnsubscribeAbsent(r, m) PROVE AuthInv'
      BY <2>3 DEF UnsubscribeAbsent
    <2>4. ASSUME NEW m \in MTokens, UnsubscribeStart(r, m) PROVE AuthInv'
      BY <2>4 DEF UnsubscribeStart
    <2>5. QED
      BY <1>1, <2>1, <2>2, <2>3, <2>4 DEF RequestStart
  <1>2. ASSUME NEW r \in Reqs, SubscribeStep(r) PROVE AuthInv'
    <2>1. CASE SubscribeCheckActive(r)
      BY <2>1 DEF SubscribeCheckActive
    <2>2. CASE SubscribeReadIdx(r)
      BY <2>2 DEF SubscribeReadIdx
    <2>3. CASE SubscribeDropPrevious(r)
      BY <2>3 DEF SubscribeDropPrevious
    <2>4. ASSUME NEW t \in VTokens, SubscribePut(r, t) PROVE AuthInv'
      BY <2>4 DEF SubscribePut
    <2>5. CASE SubscribePutIdx(r)
      BY <2>5 DEF SubscribePutIdx
    <2>6. CASE SubscribeMail(r)
      BY <2>6 DEF SubscribeMail
    <2>7. CASE SubscribeUndo(r)
      BY <2>7 DEF SubscribeUndo
    <2>8. CASE SubscribeUndoIdx(r)
      BY <2>8 DEF SubscribeUndoIdx
    <2>9. QED
      BY <1>2, <2>1, <2>2, <2>3, <2>4, <2>5, <2>6, <2>7, <2>8 DEF SubscribeStep
  <1>3. ASSUME NEW r \in Reqs, VerifyStep(r) PROVE AuthInv'
    <2>1. CASE VerifyOwnership(r)
      BY <2>1 DEF VerifyOwnership
    <2>2. ASSUME NEW m \in MTokens, NEW ok \in BOOLEAN, VerifyScan(r, m, ok) PROVE AuthInv'
      BY <2>2 DEF VerifyScan
    <2>3. CASE VerifyDropExisting(r)
      BY <2>3 DEF VerifyDropExisting
    <2>4. CASE VerifyPutBlind(r)
      BY <2>4 DEF VerifyPutBlind
    <2>5. CASE VerifyDropIdx(r)
      BY <2>5 DEF VerifyDropIdx
    <2>6. CASE VerifyPutActive(r)
      BY <2>6 DEF VerifyPutActive
    <2>7. CASE VerifyDropPending(r)
      BY <2>7 DEF VerifyDropPending
    <2>8. CASE VerifyMail(r)
      BY <2>8 DEF VerifyMail
    <2>9. QED
      BY <1>3, <2>1, <2>2, <2>3, <2>4, <2>5, <2>6, <2>7, <2>8 DEF VerifyStep
  <1>4. ASSUME NEW r \in Reqs, UnsubscribeStep(r) PROVE AuthInv'
    <2>1. CASE UnsubscribeDropBlind(r)
      BY <2>1 DEF UnsubscribeDropBlind
    <2>2. CASE UnsubscribeDropIdx(r)
      BY <2>2 DEF UnsubscribeDropIdx
    <2>3. CASE UnsubscribeDropActive(r)
      BY <2>3 DEF UnsubscribeDropActive
    <2>4. QED
      BY <1>4, <2>1, <2>2, <2>3 DEF UnsubscribeStep
  <1>5. ASSUME NEW r \in Reqs, Killed(r) PROVE AuthInv'
    BY <1>5 DEF Killed
  <1>6. CASE CronList
    BY <1>6 DEF CronList
  <1>7. CASE CronStep
    <2>1. ASSUME NEW m \in MTokens, CronLoad(m) PROVE AuthInv'
      BY <2>1 DEF CronLoad
    <2>2. ASSUME NEW m \in MTokens, CronTake(m) PROVE AuthInv'
      BY <2>2 DEF CronTake
    <2>3. CASE CronLoaded
      BY <2>3 DEF CronLoaded
    <2>4. CASE CronProve
      <3>1. Renewed(due[cur]).who = due[cur].who /\ Renewed(due[cur]).own = due[cur].own
        BY <2>4, RecordUpdates DEF CronProve
      <3>2. QED
        BY <2>4, <3>1 DEF CronProve
    <2>5. CASE CronRenew
      BY <2>5 DEF CronRenew
    <2>6. CASE CronScan
      BY <2>6 DEF CronScan
    <2>7. CASE CronAlert
      BY <2>7 DEF CronAlert
    <2>8. CASE CronSave
      BY <2>8, RecordUpdates DEF CronSave
    <2>9. CASE CronWriteFails
      BY <2>9 DEF CronWriteFails
    <2>10. CASE CronEnd
      BY <2>10 DEF CronEnd
    <2>11. CASE CronKilled
      BY <2>11 DEF CronKilled
    <2>12. QED
      BY <1>7, <2>1, <2>2, <2>3, <2>4, <2>5, <2>6, <2>7, <2>8, <2>9,
         <2>10, <2>11 DEF CronStep
  <1>8. CASE Expiry
    <2>1. ASSUME NEW t \in VTokens, PendingExpires(t) PROVE AuthInv'
      BY <2>1 DEF PendingExpires
    <2>2. ASSUME NEW i \in Identities, PendingIdxExpires(i) PROVE AuthInv'
      BY <2>2 DEF PendingIdxExpires
    <2>3. QED
      BY <1>8, <2>1, <2>2 DEF Expiry
  <1>9. ASSUME NEW old \in SUBSET MTokens, DayPasses(old) PROVE AuthInv'
    <2>1. ASSUME NEW m \in MTokens, active[m] # None
          PROVE  /\ Aged(active[m]).who = active[m].who
                 /\ Lapsed(active[m]).who = active[m].who
                 /\ Aged(active[m]).own = active[m].own
                 /\ Lapsed(active[m]).own = active[m].own
      BY <2>1, RecordUpdates
    <2>2. QED
      BY <1>9, <2>1 DEF DayPasses
  <1>10. CASE UNCHANGED vars
    BY <1>10 DEF vars
  <1>11. QED
    BY <1>1, <1>2, <1>3, <1>4, <1>5, <1>6, <1>7, <1>8, <1>9, <1>10
    DEF Next, RequestStep, DayStep

\* Nothing is ever monitored that its mailbox and, for an external host, its
\* challenge file did not authorise.
THEOREM Authorisation == Spec => []OnlyAuthorisedMonitored
  <1>1. AuthInv => OnlyAuthorisedMonitored
    BY DEF AuthInv
  <1>2. QED
    BY TypeInit, TypeStep, OwnerInit, OwnerStep, AuthInit, AuthStep, <1>1, PTL
    DEF Spec

-----------------------------------------------------------------------------
(* Deletions are final.                                                    *)

\* Nothing has been deleted at the start.
LEMMA GoneInit == Init => GoneInv
  BY ConstantsAssumption DEF Init, GoneInv, PrePut

\* No write of a handler or of the run recreates a deleted record.
LEMMA GoneStep == TypeInv /\ OwnerInv /\ GoneInv /\ [Next]_vars => GoneInv'
  <1> SUFFICES ASSUME TypeInv, OwnerInv, GoneInv, [Next]_vars PROVE GoneInv'
    OBVIOUS
  <1> USE ConstantsAssumption
      DEF TypeInv, TypeOK, LocalsOK, Record, OwnerInv, TokensKeepTheirOwner,
          GoneInv, PrePut,
          CronPcs, SubscribePcs, VerifyPcs, UnsubPcs, HasLink, OwnLink, Minted,
          InHand, Step, Goto, Finish, DeleteActive, CronGoto, CronSkip,
          CronStop, IsDue, kv, args, locals, cron, links, tokens, world
  <1>1. ASSUME NEW r \in Reqs, RequestStart(r) PROVE GoneInv'
    <2>1. ASSUME NEW i \in Identities, SubscribeStart(r, i) PROVE GoneInv'
      BY <2>1 DEF SubscribeStart
    <2>2. ASSUME NEW t \in VTokens, VerifyStart(r, t) PROVE GoneInv'
      BY <2>2 DEF VerifyStart
    <2>3. ASSUME NEW m \in MTokens, UnsubscribeAbsent(r, m) PROVE GoneInv'
      BY <2>3 DEF UnsubscribeAbsent
    <2>4. ASSUME NEW m \in MTokens, UnsubscribeStart(r, m) PROVE GoneInv'
      BY <2>4 DEF UnsubscribeStart
    <2>5. QED
      BY <1>1, <2>1, <2>2, <2>3, <2>4 DEF RequestStart
  <1>2. ASSUME NEW r \in Reqs, SubscribeStep(r) PROVE GoneInv'
    <2>1. CASE SubscribeCheckActive(r)
      BY <2>1 DEF SubscribeCheckActive
    <2>2. CASE SubscribeReadIdx(r)
      BY <2>2 DEF SubscribeReadIdx
    <2>3. CASE SubscribeDropPrevious(r)
      BY <2>3 DEF SubscribeDropPrevious
    <2>4. ASSUME NEW t \in VTokens, SubscribePut(r, t) PROVE GoneInv'
      BY <2>4 DEF SubscribePut
    <2>5. CASE SubscribePutIdx(r)
      BY <2>5 DEF SubscribePutIdx
    <2>6. CASE SubscribeMail(r)
      BY <2>6 DEF SubscribeMail
    <2>7. CASE SubscribeUndo(r)
      BY <2>7 DEF SubscribeUndo
    <2>8. CASE SubscribeUndoIdx(r)
      BY <2>8 DEF SubscribeUndoIdx
    <2>9. QED
      BY <1>2, <2>1, <2>2, <2>3, <2>4, <2>5, <2>6, <2>7, <2>8 DEF SubscribeStep
  <1>3. ASSUME NEW r \in Reqs, VerifyStep(r) PROVE GoneInv'
    <2>1. CASE VerifyOwnership(r)
      BY <2>1 DEF VerifyOwnership
    <2>2. ASSUME NEW m \in MTokens, NEW ok \in BOOLEAN, VerifyScan(r, m, ok) PROVE GoneInv'
      BY <2>2 DEF VerifyScan
    <2>3. CASE VerifyDropExisting(r)
      BY <2>3 DEF VerifyDropExisting
    <2>4. CASE VerifyPutBlind(r)
      BY <2>4 DEF VerifyPutBlind
    <2>5. CASE VerifyDropIdx(r)
      BY <2>5 DEF VerifyDropIdx
    <2>6. CASE VerifyPutActive(r)
      BY <2>6 DEF VerifyPutActive
    <2>7. CASE VerifyDropPending(r)
      BY <2>7 DEF VerifyDropPending
    <2>8. CASE VerifyMail(r)
      BY <2>8 DEF VerifyMail
    <2>9. QED
      BY <1>3, <2>1, <2>2, <2>3, <2>4, <2>5, <2>6, <2>7, <2>8 DEF VerifyStep
  <1>4. ASSUME NEW r \in Reqs, UnsubscribeStep(r) PROVE GoneInv'
    <2>1. CASE UnsubscribeDropBlind(r)
      BY <2>1 DEF UnsubscribeDropBlind
    <2>2. CASE UnsubscribeDropIdx(r)
      BY <2>2 DEF UnsubscribeDropIdx
    <2>3. CASE UnsubscribeDropActive(r)
      BY <2>3 DEF UnsubscribeDropActive
    <2>4. QED
      BY <1>4, <2>1, <2>2, <2>3 DEF UnsubscribeStep
  <1>5. ASSUME NEW r \in Reqs, Killed(r) PROVE GoneInv'
    BY <1>5 DEF Killed
  <1>6. CASE CronList
    BY <1>6 DEF CronList
  <1>7. CASE CronStep
    <2>1. ASSUME NEW m \in MTokens, CronLoad(m) PROVE GoneInv'
      BY <2>1 DEF CronLoad
    <2>2. ASSUME NEW m \in MTokens, CronTake(m) PROVE GoneInv'
      BY <2>2 DEF CronTake
    <2>3. CASE CronLoaded
      BY <2>3 DEF CronLoaded
    <2>4. CASE CronProve
      <3>1. Renewed(due[cur]).who = due[cur].who /\ Renewed(due[cur]).own = due[cur].own
        BY <2>4, RecordUpdates DEF CronProve
      <3>2. QED
        BY <2>4, <3>1 DEF CronProve
    <2>5. CASE CronRenew
      BY <2>5 DEF CronRenew
    <2>6. CASE CronScan
      BY <2>6 DEF CronScan
    <2>7. CASE CronAlert
      BY <2>7 DEF CronAlert
    <2>8. CASE CronSave
      BY <2>8, RecordUpdates DEF CronSave
    <2>9. CASE CronWriteFails
      BY <2>9 DEF CronWriteFails
    <2>10. CASE CronEnd
      BY <2>10 DEF CronEnd
    <2>11. CASE CronKilled
      BY <2>11 DEF CronKilled
    <2>12. QED
      BY <1>7, <2>1, <2>2, <2>3, <2>4, <2>5, <2>6, <2>7, <2>8, <2>9,
         <2>10, <2>11 DEF CronStep
  <1>8. CASE Expiry
    <2>1. ASSUME NEW t \in VTokens, PendingExpires(t) PROVE GoneInv'
      BY <2>1 DEF PendingExpires
    <2>2. ASSUME NEW i \in Identities, PendingIdxExpires(i) PROVE GoneInv'
      BY <2>2 DEF PendingIdxExpires
    <2>3. QED
      BY <1>8, <2>1, <2>2 DEF Expiry
  <1>9. ASSUME NEW old \in SUBSET MTokens, DayPasses(old) PROVE GoneInv'
    <2>1. ASSUME NEW m \in MTokens, active[m] # None
          PROVE  /\ Aged(active[m]).who = active[m].who
                 /\ Lapsed(active[m]).who = active[m].who
                 /\ Aged(active[m]).own = active[m].own
                 /\ Lapsed(active[m]).own = active[m].own
      BY <2>1, RecordUpdates
    <2>2. QED
      BY <1>9, <2>1 DEF DayPasses
  <1>10. CASE UNCHANGED vars
    BY <1>10 DEF vars
  <1>11. QED
    BY <1>1, <1>2, <1>3, <1>4, <1>5, <1>6, <1>7, <1>8, <1>9, <1>10
    DEF Next, RequestStep, DayStep

\* A deletion is final unless the run in progress holds a copy of the record.
THEOREM DeletionIsFinal == Spec => []GoneStaysGone
  <1>1. GoneInv => GoneStaysGone
    BY DEF GoneInv, GoneStaysGone
  <1>2. QED
    BY TypeInit, TypeStep, OwnerInit, OwnerStep, GoneInit, GoneStep, <1>1, PTL
    DEF Spec

-----------------------------------------------------------------------------
(* What the run knows of a record it holds a copy of.                      *)

\* The run holds nothing at the start.
LEMMA CopyInit == Init => CopyInv
  BY ConstantsAssumption DEF Init, CopyInv

\* While the run holds a copy of a record, nobody but the run writes that record.
LEMMA CopyStep == TypeInv /\ OwnerInv /\ GoneInv /\ CopyInv /\ [Next]_vars => CopyInv'
  <1> SUFFICES ASSUME TypeInv, OwnerInv, GoneInv, CopyInv, [Next]_vars PROVE CopyInv'
    OBVIOUS
  <1> USE ConstantsAssumption
      DEF TypeInv, TypeOK, LocalsOK, Record, OwnerInv, TokensKeepTheirOwner,
          GoneInv, CopyInv, PrePut, ProofExpired, NeedsProof,
          CronPcs, SubscribePcs, VerifyPcs, UnsubPcs, HasLink, OwnLink, Minted,
          InHand, Step, Goto, Finish, DeleteActive, CronGoto, CronSkip,
          CronStop, IsDue, kv, args, locals, cron, links, tokens, world
  <1>1. ASSUME NEW r \in Reqs, RequestStart(r) PROVE CopyInv'
    <2>1. ASSUME NEW i \in Identities, SubscribeStart(r, i) PROVE CopyInv'
      BY <2>1 DEF SubscribeStart
    <2>2. ASSUME NEW t \in VTokens, VerifyStart(r, t) PROVE CopyInv'
      BY <2>2 DEF VerifyStart
    <2>3. ASSUME NEW m \in MTokens, UnsubscribeAbsent(r, m) PROVE CopyInv'
      BY <2>3 DEF UnsubscribeAbsent
    <2>4. ASSUME NEW m \in MTokens, UnsubscribeStart(r, m) PROVE CopyInv'
      BY <2>4 DEF UnsubscribeStart
    <2>5. QED
      BY <1>1, <2>1, <2>2, <2>3, <2>4 DEF RequestStart
  <1>2. ASSUME NEW r \in Reqs, SubscribeStep(r) PROVE CopyInv'
    <2>1. CASE SubscribeCheckActive(r)
      BY <2>1 DEF SubscribeCheckActive
    <2>2. CASE SubscribeReadIdx(r)
      BY <2>2 DEF SubscribeReadIdx
    <2>3. CASE SubscribeDropPrevious(r)
      BY <2>3 DEF SubscribeDropPrevious
    <2>4. ASSUME NEW t \in VTokens, SubscribePut(r, t) PROVE CopyInv'
      BY <2>4 DEF SubscribePut
    <2>5. CASE SubscribePutIdx(r)
      BY <2>5 DEF SubscribePutIdx
    <2>6. CASE SubscribeMail(r)
      BY <2>6 DEF SubscribeMail
    <2>7. CASE SubscribeUndo(r)
      BY <2>7 DEF SubscribeUndo
    <2>8. CASE SubscribeUndoIdx(r)
      BY <2>8 DEF SubscribeUndoIdx
    <2>9. QED
      BY <1>2, <2>1, <2>2, <2>3, <2>4, <2>5, <2>6, <2>7, <2>8 DEF SubscribeStep
  <1>3. ASSUME NEW r \in Reqs, VerifyStep(r) PROVE CopyInv'
    <2>1. CASE VerifyOwnership(r)
      BY <2>1 DEF VerifyOwnership
    <2>2. ASSUME NEW m \in MTokens, NEW ok \in BOOLEAN, VerifyScan(r, m, ok) PROVE CopyInv'
      BY <2>2 DEF VerifyScan
    <2>3. CASE VerifyDropExisting(r)
      BY <2>3 DEF VerifyDropExisting
    <2>4. CASE VerifyPutBlind(r)
      BY <2>4 DEF VerifyPutBlind
    <2>5. CASE VerifyDropIdx(r)
      BY <2>5 DEF VerifyDropIdx
    <2>6. CASE VerifyPutActive(r)
      <3>1. pc[r] = "v_active" /\ mtok[r] \in MTokens /\ due[mtok[r]] = None
        BY <2>6 DEF VerifyPutActive
      <3>2. \A m \in MTokens : m # mtok[r] => active'[m] = active[m]
        BY <2>6 DEF VerifyPutActive
      <3>3. due' = due /\ cronPc' = cronPc /\ cur' = cur
        BY <2>6 DEF VerifyPutActive
      <3>4. QED
        BY <3>1, <3>2, <3>3
    <2>7. CASE VerifyDropPending(r)
      BY <2>7 DEF VerifyDropPending
    <2>8. CASE VerifyMail(r)
      BY <2>8 DEF VerifyMail
    <2>9. QED
      BY <1>3, <2>1, <2>2, <2>3, <2>4, <2>5, <2>6, <2>7, <2>8 DEF VerifyStep
  <1>4. ASSUME NEW r \in Reqs, UnsubscribeStep(r) PROVE CopyInv'
    <2>1. CASE UnsubscribeDropBlind(r)
      BY <2>1 DEF UnsubscribeDropBlind
    <2>2. CASE UnsubscribeDropIdx(r)
      BY <2>2 DEF UnsubscribeDropIdx
    <2>3. CASE UnsubscribeDropActive(r)
      BY <2>3 DEF UnsubscribeDropActive
    <2>4. QED
      BY <1>4, <2>1, <2>2, <2>3 DEF UnsubscribeStep
  <1>5. ASSUME NEW r \in Reqs, Killed(r) PROVE CopyInv'
    BY <1>5 DEF Killed
  <1>6. CASE CronList
    BY <1>6 DEF CronList
  <1>7. CASE CronStep
    <2>1. ASSUME NEW m \in MTokens, CronLoad(m) PROVE CopyInv'
      BY <2>1 DEF CronLoad
    <2>2. ASSUME NEW m \in MTokens, CronTake(m) PROVE CopyInv'
      BY <2>2 DEF CronTake
    <2>3. CASE CronLoaded
      BY <2>3 DEF CronLoaded
    <2>4. CASE CronProve
      <3>1. /\ Renewed(due[cur]).who = due[cur].who /\ Renewed(due[cur]).proof
            /\ ~due[cur].recent => ~Renewed(due[cur]).recent
        BY <2>4, RecordUpdates DEF CronProve, Renewed
      <3>2. QED
        BY <2>4, <3>1 DEF CronProve
    <2>5. CASE CronRenew
      BY <2>5 DEF CronRenew
    <2>6. CASE CronScan
      BY <2>6 DEF CronScan
    <2>7. CASE CronAlert
      BY <2>7 DEF CronAlert
    <2>8. CASE CronSave
      BY <2>8, RecordUpdates DEF CronSave
    <2>9. CASE CronWriteFails
      BY <2>9 DEF CronWriteFails
    <2>10. CASE CronEnd
      BY <2>10 DEF CronEnd
    <2>11. CASE CronKilled
      BY <2>11 DEF CronKilled
    <2>12. QED
      BY <1>7, <2>1, <2>2, <2>3, <2>4, <2>5, <2>6, <2>7, <2>8, <2>9,
         <2>10, <2>11 DEF CronStep
  <1>8. CASE Expiry
    <2>1. ASSUME NEW t \in VTokens, PendingExpires(t) PROVE CopyInv'
      BY <2>1 DEF PendingExpires
    <2>2. ASSUME NEW i \in Identities, PendingIdxExpires(i) PROVE CopyInv'
      BY <2>2 DEF PendingIdxExpires
    <2>3. QED
      BY <1>8, <2>1, <2>2 DEF Expiry
  <1>9. ASSUME NEW old \in SUBSET MTokens, DayPasses(old) PROVE CopyInv'
    <2>1. ASSUME NEW m \in MTokens, active[m] # None
          PROVE  due[m] = None
      BY <1>9 DEF DayPasses
    <2>2. QED
      BY <1>9, <2>1 DEF DayPasses
  <1>10. CASE UNCHANGED vars
    BY <1>10 DEF vars
  <1>11. QED
    BY <1>1, <1>2, <1>3, <1>4, <1>5, <1>6, <1>7, <1>8, <1>9, <1>10
    DEF Next, RequestStep, DayStep

\* A host is only scanned when the proof that allows it is in KV.
THEOREM ProofStoredFirst == Spec => []RenewedProofIsStored
  <1>1. TypeInv /\ OwnerInv /\ CopyInv => RenewedProofIsStored
    BY ConstantsAssumption DEF TypeInv, TypeOK, LocalsOK, Record, InHand, OwnerInv,
           TokensKeepTheirOwner, CopyInv, RenewedProofIsStored, ProofExpired,
           NeedsProof
  <1>2. QED
    BY TypeInit, TypeStep, OwnerInit, OwnerStep, GoneInit, GoneStep, CopyInit,
       CopyStep, <1>1, PTL DEF Spec

\* No record is scanned while a newer scan of it is in KV.
THEOREM NoSecondScan == Spec => []NoSecondScanInADay
  <1>1. TypeInv /\ CopyInv => NoSecondScanInADay
    BY ConstantsAssumption DEF TypeInv, TypeOK, LocalsOK, Record, InHand, CopyInv, NoSecondScanInADay
  <1>2. QED
    BY TypeInit, TypeStep, OwnerInit, OwnerStep, GoneInit, GoneStep, CopyInit,
       CopyStep, <1>1, PTL DEF Spec

-----------------------------------------------------------------------------
(* One subscription per identity, when requests do not overlap.  A         *)
(* subscribe or a verify may still be cut off between any two KV calls.    *)

\* The serial steps are among those that may overlap.
LEMMA SerialIsNext == SerialKillNext => Next
  BY DEF SerialKillNext, SerialNext, Next

\* All is quiet and nothing is indexed at the start.
LEMMA SerialInit == Init => Alone /\ IndexInv
  BY ConstantsAssumption
     DEF Init, Alone, IndexInv, ActiveIsIndexed

\* Who starts when all is quiet works alone until it is idle again.
LEMMA AloneStep == TypeInv /\ Alone /\ [SerialKillNext]_vars => Alone'
  <1> SUFFICES ASSUME TypeInv, Alone, [SerialKillNext]_vars PROVE Alone'
    OBVIOUS
  <1> USE ConstantsAssumption
      DEF TypeInv, TypeOK, LocalsOK, Record, CronPcs, SubscribePcs, VerifyPcs,
          UnsubPcs, HasLink, Minted, InHand, Alone, Quiet, Step, Goto, Finish,
          DeleteActive, CronGoto, CronSkip, CronStop, kv, args, locals, cron,
          links, tokens, world
  <1>1. ASSUME NEW r \in Reqs, Quiet, RequestStart(r) PROVE Alone'
    <2>1. ASSUME NEW i \in Identities, SubscribeStart(r, i) PROVE Alone'
      BY <1>1, <2>1 DEF SubscribeStart
    <2>2. ASSUME NEW t \in VTokens, VerifyStart(r, t) PROVE Alone'
      BY <1>1, <2>2 DEF VerifyStart
    <2>3. ASSUME NEW m \in MTokens, UnsubscribeAbsent(r, m) PROVE Alone'
      BY <2>3 DEF UnsubscribeAbsent
    <2>4. ASSUME NEW m \in MTokens, UnsubscribeStart(r, m) PROVE Alone'
      BY <1>1, <2>4 DEF UnsubscribeStart
    <2>5. QED
      BY <1>1, <2>1, <2>2, <2>3, <2>4 DEF RequestStart
  <1>2. ASSUME NEW r \in Reqs, SubscribeStep(r) PROVE Alone'
    <2>1. CASE SubscribeCheckActive(r)
      BY <2>1 DEF SubscribeCheckActive
    <2>2. CASE SubscribeReadIdx(r)
      BY <2>2 DEF SubscribeReadIdx
    <2>3. CASE SubscribeDropPrevious(r)
      BY <2>3 DEF SubscribeDropPrevious
    <2>4. ASSUME NEW t \in VTokens, SubscribePut(r, t) PROVE Alone'
      BY <2>4 DEF SubscribePut
    <2>5. CASE SubscribePutIdx(r)
      BY <2>5 DEF SubscribePutIdx
    <2>6. CASE SubscribeMail(r)
      BY <2>6 DEF SubscribeMail
    <2>7. CASE SubscribeUndo(r)
      BY <2>7 DEF SubscribeUndo
    <2>8. CASE SubscribeUndoIdx(r)
      BY <2>8 DEF SubscribeUndoIdx
    <2>9. QED
      BY <1>2, <2>1, <2>2, <2>3, <2>4, <2>5, <2>6, <2>7, <2>8 DEF SubscribeStep
  <1>3. ASSUME NEW r \in Reqs, VerifyStep(r) PROVE Alone'
    <2>1. CASE VerifyOwnership(r)
      BY <2>1 DEF VerifyOwnership
    <2>2. ASSUME NEW m \in MTokens, NEW ok \in BOOLEAN, VerifyScan(r, m, ok) PROVE Alone'
      BY <2>2 DEF VerifyScan
    <2>3. CASE VerifyDropExisting(r)
      BY <2>3 DEF VerifyDropExisting
    <2>4. CASE VerifyPutBlind(r)
      BY <2>4 DEF VerifyPutBlind
    <2>5. CASE VerifyDropIdx(r)
      BY <2>5 DEF VerifyDropIdx
    <2>6. CASE VerifyPutActive(r)
      BY <2>6 DEF VerifyPutActive
    <2>7. CASE VerifyDropPending(r)
      BY <2>7 DEF VerifyDropPending
    <2>8. CASE VerifyMail(r)
      BY <2>8 DEF VerifyMail
    <2>9. QED
      BY <1>3, <2>1, <2>2, <2>3, <2>4, <2>5, <2>6, <2>7, <2>8 DEF VerifyStep
  <1>4. ASSUME NEW r \in Reqs, UnsubscribeStep(r) PROVE Alone'
    <2>1. CASE UnsubscribeDropBlind(r)
      BY <2>1 DEF UnsubscribeDropBlind
    <2>2. CASE UnsubscribeDropIdx(r)
      BY <2>2 DEF UnsubscribeDropIdx
    <2>3. CASE UnsubscribeDropActive(r)
      BY <2>3 DEF UnsubscribeDropActive
    <2>4. QED
      BY <1>4, <2>1, <2>2, <2>3 DEF UnsubscribeStep
  <1>5. ASSUME NEW r \in Reqs, pc[r] \notin UnsubPcs, Killed(r) PROVE Alone'
    BY <1>5 DEF Killed
  <1>6. CASE Quiet /\ CronList
    BY <1>6 DEF CronList
  <1>7. CASE CronStep
    <2>1. ASSUME NEW m \in MTokens, CronLoad(m) PROVE Alone'
      BY <2>1 DEF CronLoad
    <2>2. ASSUME NEW m \in MTokens, CronTake(m) PROVE Alone'
      BY <2>2 DEF CronTake
    <2>3. CASE CronLoaded
      BY <2>3 DEF CronLoaded
    <2>4. CASE CronProve
      BY <2>4 DEF CronProve
    <2>5. CASE CronRenew
      BY <2>5 DEF CronRenew
    <2>6. CASE CronScan
      BY <2>6 DEF CronScan
    <2>7. CASE CronAlert
      BY <2>7 DEF CronAlert
    <2>8. CASE CronSave
      BY <2>8 DEF CronSave
    <2>9. CASE CronWriteFails
      BY <2>9 DEF CronWriteFails
    <2>10. CASE CronEnd
      BY <2>10 DEF CronEnd
    <2>11. CASE CronKilled
      BY <2>11 DEF CronKilled
    <2>12. QED
      BY <1>7, <2>1, <2>2, <2>3, <2>4, <2>5, <2>6, <2>7, <2>8, <2>9,
         <2>10, <2>11 DEF CronStep
  <1>8. CASE Quiet /\ Expiry
    <2>1. ASSUME NEW t \in VTokens, PendingExpires(t) PROVE Alone'
      BY <2>1 DEF PendingExpires
    <2>2. ASSUME NEW i \in Identities, PendingIdxExpires(i) PROVE Alone'
      BY <2>2 DEF PendingIdxExpires
    <2>3. QED
      BY <1>8, <2>1, <2>2 DEF Expiry
  <1>9. ASSUME NEW old \in SUBSET MTokens, Quiet, DayPasses(old) PROVE Alone'
    BY <1>9 DEF DayPasses
  <1>10. CASE UNCHANGED vars
    BY <1>10 DEF vars
  <1>11. QED
    BY <1>1, <1>2, <1>3, <1>4, <1>5, <1>6, <1>7, <1>8, <1>9, <1>10
    DEF SerialKillNext, SerialNext, RequestStep, DayStep

\* Working alone, a handler never leaves a record the blind index does not
\* find, except the one it is unsubscribing.
LEMMA IndexStep ==
  TypeInv /\ OwnerInv /\ GoneInv /\ Alone /\ IndexInv /\ [SerialKillNext]_vars
    => IndexInv'
  <1> SUFFICES ASSUME TypeInv, OwnerInv, GoneInv, Alone, IndexInv,
                      [SerialKillNext]_vars
               PROVE  IndexInv'
    OBVIOUS
  <1>a. cronPc = "idle" => \A m \in MTokens : due[m] = None
    BY DEF GoneInv
  <1> USE ConstantsAssumption
      DEF TypeInv, TypeOK, LocalsOK, Record, OwnerInv,
          TokensKeepTheirOwner, OwnLink, IndexInv, ActiveIsIndexed, IsDue, CronPcs, SubscribePcs, VerifyPcs,
          UnsubPcs, HasLink, Minted, InHand, Alone, Quiet, Step, Goto, Finish,
          DeleteActive, CronGoto, CronSkip, CronStop, kv, args, locals, cron,
          links, tokens, world
  <1>1. ASSUME NEW r \in Reqs, Quiet, RequestStart(r) PROVE IndexInv'
    <2>1. ASSUME NEW i \in Identities, SubscribeStart(r, i) PROVE IndexInv'
      BY <1>1, <2>1 DEF SubscribeStart
    <2>2. ASSUME NEW t \in VTokens, VerifyStart(r, t) PROVE IndexInv'
      BY <1>1, <2>2 DEF VerifyStart
    <2>3. ASSUME NEW m \in MTokens, UnsubscribeAbsent(r, m) PROVE IndexInv'
      BY <2>3 DEF UnsubscribeAbsent
    <2>4. ASSUME NEW m \in MTokens, UnsubscribeStart(r, m) PROVE IndexInv'
      BY <1>1, <2>4 DEF UnsubscribeStart
    <2>5. QED
      BY <1>1, <2>1, <2>2, <2>3, <2>4 DEF RequestStart
  <1>2. ASSUME NEW r \in Reqs, SubscribeStep(r) PROVE IndexInv'
    <2>1. CASE SubscribeCheckActive(r)
      <3>1. pc[r] = "s_active" /\ UNCHANGED <<kv, cron, world>>
        BY <2>1 DEF SubscribeCheckActive
      <3>2. CASE Finish(r)
        BY <3>1, <3>2
      <3>3. CASE pc[r] = "s_active" /\ Goto(r, "s_idx") /\ UNCHANGED args
        BY <3>1, <3>3
      <3>4. QED
        BY <2>1, <3>2, <3>3 DEF SubscribeCheckActive
    <2>2. CASE SubscribeReadIdx(r)
      BY <2>2 DEF SubscribeReadIdx
    <2>3. CASE SubscribeDropPrevious(r)
      BY <2>3 DEF SubscribeDropPrevious
    <2>4. ASSUME NEW t \in VTokens, SubscribePut(r, t) PROVE IndexInv'
      BY <2>4 DEF SubscribePut
    <2>5. CASE SubscribePutIdx(r)
      BY <2>5 DEF SubscribePutIdx
    <2>6. CASE SubscribeMail(r)
      BY <2>6 DEF SubscribeMail
    <2>7. CASE SubscribeUndo(r)
      BY <2>7 DEF SubscribeUndo
    <2>8. CASE SubscribeUndoIdx(r)
      BY <2>8 DEF SubscribeUndoIdx
    <2>9. QED
      BY <1>2, <2>1, <2>2, <2>3, <2>4, <2>5, <2>6, <2>7, <2>8 DEF SubscribeStep
  <1>3. ASSUME NEW r \in Reqs, VerifyStep(r) PROVE IndexInv'
    <2>1. CASE VerifyOwnership(r)
      BY <2>1 DEF VerifyOwnership
    <2>2. ASSUME NEW m \in MTokens, NEW ok \in BOOLEAN, VerifyScan(r, m, ok) PROVE IndexInv'
      <3>1. /\ pc[r] = "v_scan"
            /\ pc' = [pc EXCEPT ![r] =
                        IF blind[who[r]] = None THEN "v_blind" ELSE "v_drop"]
            /\ found' = [found EXCEPT ![r] = blind[who[r]]]
            /\ UNCHANGED <<kv, who, cron>>
        BY <2>2 DEF VerifyScan
      <3>2. \A s \in Reqs : s # r => pc[s] = "idle" /\ pc'[s] = "idle"
        BY <3>1
      <3>3. \A n \in MTokens : active[n] # None => blind[active[n].who] = n
        BY <3>1, <3>2
      <3>4. blind[who[r]] = None =>
              \A n \in MTokens : active[n] # None => active[n].who # who[r]
        BY <3>3
      <3>5. QED
        BY <3>1, <3>2, <3>3, <3>4
    <2>3. CASE VerifyDropExisting(r)
      <3>1. /\ pc[r] = "v_drop" /\ pc' = [pc EXCEPT ![r] = "v_blind"]
            /\ active' = [active EXCEPT ![found[r]] = None]
            /\ UNCHANGED <<blind, args, cron>>
        BY <2>3 DEF VerifyDropExisting
      <3>2. \A s \in Reqs : s # r => pc[s] = "idle" /\ pc'[s] = "idle"
        BY <3>1
      <3>3. /\ cronPc = "idle" /\ found[r] = blind[who[r]]
            /\ \A m \in MTokens : due[m] = None
        BY <1>a, <3>1
      <3>4. \A m \in MTokens : active'[m] # None =>
              active[m] = active'[m] /\ blind[active[m].who] = m
        BY <3>1, <3>2
      <3>5. \A m \in MTokens : active'[m] # None => active'[m].who # who[r]
        BY <3>1, <3>3, <3>4
      <3>6. QED
        BY <3>1, <3>2, <3>3, <3>4, <3>5
    <2>4. CASE VerifyPutBlind(r)
      BY <2>4 DEF VerifyPutBlind
    <2>5. CASE VerifyDropIdx(r)
      BY <2>5 DEF VerifyDropIdx
    <2>6. CASE VerifyPutActive(r)
      BY <2>6 DEF VerifyPutActive
    <2>7. CASE VerifyDropPending(r)
      BY <2>7 DEF VerifyDropPending
    <2>8. CASE VerifyMail(r)
      BY <2>8 DEF VerifyMail
    <2>9. QED
      BY <1>3, <2>1, <2>2, <2>3, <2>4, <2>5, <2>6, <2>7, <2>8 DEF VerifyStep
  <1>4. ASSUME NEW r \in Reqs, UnsubscribeStep(r) PROVE IndexInv'
    <2>1. CASE UnsubscribeDropBlind(r)
      BY <2>1 DEF UnsubscribeDropBlind
    <2>2. CASE UnsubscribeDropIdx(r)
      BY <2>2 DEF UnsubscribeDropIdx
    <2>3. CASE UnsubscribeDropActive(r)
      <3>1. /\ pc[r] = "u_active" /\ pc' = [pc EXCEPT ![r] = "idle"]
            /\ active' = [active EXCEPT ![mtok[r]] = None]
            /\ UNCHANGED <<blind, cron>>
        BY <2>3 DEF UnsubscribeDropActive
      <3>2. \A s \in Reqs : pc'[s] = "idle" /\ (s # r => pc[s] = "idle")
        BY <3>1
      <3>3. cronPc = "idle" /\ \A m \in MTokens : due[m] = None
        BY <1>a, <3>1
      <3>4. \A m \in MTokens : active'[m] # None =>
              active[m] = active'[m] /\ blind[active[m].who] = m
        BY <3>1, <3>2
      <3>5. QED
        BY <3>1, <3>2, <3>3, <3>4
    <2>4. QED
      BY <1>4, <2>1, <2>2, <2>3 DEF UnsubscribeStep
  <1>5. ASSUME NEW r \in Reqs, pc[r] \notin UnsubPcs, Killed(r) PROVE IndexInv'
    BY <1>5 DEF Killed
  <1>6. CASE Quiet /\ CronList
    BY <1>6 DEF CronList
  <1>7. CASE CronStep
    <2>1. ASSUME NEW m \in MTokens, CronLoad(m) PROVE IndexInv'
      BY <2>1 DEF CronLoad
    <2>2. ASSUME NEW m \in MTokens, CronTake(m) PROVE IndexInv'
      BY <2>2 DEF CronTake
    <2>3. CASE CronLoaded
      BY <2>3 DEF CronLoaded
    <2>4. CASE CronProve
      <3>1. Renewed(due[cur]).who = due[cur].who
        BY <2>4, RecordUpdates DEF CronProve
      <3>2. QED
        BY <2>4, <3>1 DEF CronProve
    <2>5. CASE CronRenew
      BY <2>5 DEF CronRenew
    <2>6. CASE CronScan
      BY <2>6 DEF CronScan
    <2>7. CASE CronAlert
      BY <2>7 DEF CronAlert
    <2>8. CASE CronSave
      BY <2>8, RecordUpdates DEF CronSave
    <2>9. CASE CronWriteFails
      BY <2>9 DEF CronWriteFails
    <2>10. CASE CronEnd
      BY <2>10 DEF CronEnd
    <2>11. CASE CronKilled
      BY <2>11 DEF CronKilled
    <2>12. QED
      BY <1>7, <2>1, <2>2, <2>3, <2>4, <2>5, <2>6, <2>7, <2>8, <2>9,
         <2>10, <2>11 DEF CronStep
  <1>8. CASE Quiet /\ Expiry
    <2>1. ASSUME NEW t \in VTokens, PendingExpires(t) PROVE IndexInv'
      BY <2>1 DEF PendingExpires
    <2>2. ASSUME NEW i \in Identities, PendingIdxExpires(i) PROVE IndexInv'
      BY <2>2 DEF PendingIdxExpires
    <2>3. QED
      BY <1>8, <2>1, <2>2 DEF Expiry
  <1>9. ASSUME NEW old \in SUBSET MTokens, Quiet, DayPasses(old) PROVE IndexInv'
    <2>1. ASSUME NEW m \in MTokens, active[m] # None
          PROVE  /\ Aged(active[m]).who = active[m].who
                 /\ Lapsed(active[m]).who = active[m].who
                 /\ Aged(active[m]) \in Record /\ Lapsed(active[m]) \in Record
      BY <2>1, RecordUpdates
    <2>2. QED
      BY <1>9, <2>1 DEF DayPasses
  <1>10. CASE UNCHANGED vars
    BY <1>10 DEF vars
  <1>11. QED
    BY <1>1, <1>2, <1>3, <1>4, <1>5, <1>6, <1>7, <1>8, <1>9, <1>10
    DEF SerialKillNext, SerialNext, RequestStep, DayStep

\* When requests do not overlap, an identity never has two monitored records,
\* even if a subscribe or a verify is cut off at any point.
THEOREM OneSubscription == SerialKillSpec => []OneActivePerIdentity
  <1>1. TypeInv /\ OwnerInv /\ Alone /\ IndexInv => OneActivePerIdentity
    BY ConstantsAssumption
       DEF TypeInv, TypeOK, LocalsOK, OwnerInv, TokensKeepTheirOwner, Alone,
           IndexInv, ActiveIsIndexed, OneActivePerIdentity, UnsubPcs, Minted,
           Record
  <1>2. [SerialKillNext]_vars => [Next]_vars
    BY SerialIsNext
  <1>3. QED
    BY TypeInit, TypeStep, OwnerInit, OwnerStep, GoneInit, GoneStep, SerialInit,
       AloneStep, IndexStep, <1>1, <1>2, PTL DEF SerialKillSpec

\* The blind index finds every monitored record, also when a subscribe or a
\* verify is cut off anywhere; only the record whose own unsubscribe is past its
\* first delete is not found (schedule.ts:176, 395, 508).
THEOREM Indexed == SerialKillSpec => []ActiveIsIndexed
  <1>1. IndexInv => ActiveIsIndexed
    BY DEF IndexInv
  <1>2. [SerialKillNext]_vars => [Next]_vars
    BY SerialIsNext
  <1>3. QED
    BY TypeInit, TypeStep, OwnerInit, OwnerStep, GoneInit, GoneStep, SerialInit,
       AloneStep, IndexStep, <1>1, <1>2, PTL DEF SerialKillSpec

-----------------------------------------------------------------------------
(* A link works until its record is stored, and one per identity.          *)

\* Nobody but the verify itself drops the link it consumes.
LEMMA LinkStep == TypeInv /\ Alone /\ LinkInv /\ [SerialKillNext]_vars => LinkInv'
  <1> SUFFICES ASSUME TypeInv, Alone, LinkInv, [SerialKillNext]_vars PROVE LinkInv'
    OBVIOUS
  <1> USE ConstantsAssumption
      DEF TypeInv, TypeOK, LocalsOK, CronPcs, SubscribePcs, VerifyPcs,
          UnsubPcs, HasLink, Minted, InHand, Alone, Quiet, Step, Goto, Finish,
          DeleteActive, CronGoto, CronSkip, CronStop, kv, args, locals, cron,
          links, tokens, world, LinkInv
  <1>1. ASSUME NEW r \in Reqs, Quiet, RequestStart(r) PROVE LinkInv'
    <2>1. ASSUME NEW i \in Identities, SubscribeStart(r, i) PROVE LinkInv'
      BY <1>1, <2>1 DEF SubscribeStart
    <2>2. ASSUME NEW t \in VTokens, VerifyStart(r, t) PROVE LinkInv'
      BY <1>1, <2>2 DEF VerifyStart
    <2>3. ASSUME NEW m \in MTokens, UnsubscribeAbsent(r, m) PROVE LinkInv'
      BY <1>1, <2>3 DEF UnsubscribeAbsent
    <2>4. ASSUME NEW m \in MTokens, UnsubscribeStart(r, m) PROVE LinkInv'
      BY <1>1, <2>4 DEF UnsubscribeStart
    <2>5. QED
      BY <1>1, <2>1, <2>2, <2>3, <2>4 DEF RequestStart
  <1>2. ASSUME NEW r \in Reqs, SubscribeStep(r) PROVE LinkInv'
    <2>1. CASE SubscribeCheckActive(r)
      BY <2>1 DEF SubscribeCheckActive
    <2>2. CASE SubscribeReadIdx(r)
      BY <2>2 DEF SubscribeReadIdx
    <2>3. CASE SubscribeDropPrevious(r)
      BY <2>3 DEF SubscribeDropPrevious
    <2>4. ASSUME NEW t \in VTokens, SubscribePut(r, t) PROVE LinkInv'
      BY <2>4 DEF SubscribePut
    <2>5. CASE SubscribePutIdx(r)
      BY <2>5 DEF SubscribePutIdx
    <2>6. CASE SubscribeMail(r)
      BY <2>6 DEF SubscribeMail
    <2>7. CASE SubscribeUndo(r)
      BY <2>7 DEF SubscribeUndo
    <2>8. CASE SubscribeUndoIdx(r)
      BY <2>8 DEF SubscribeUndoIdx
    <2>9. QED
      BY <1>2, <2>1, <2>2, <2>3, <2>4, <2>5, <2>6, <2>7, <2>8 DEF SubscribeStep
  <1>3. ASSUME NEW r \in Reqs, VerifyStep(r) PROVE LinkInv'
    <2>1. CASE VerifyOwnership(r)
      BY <2>1 DEF VerifyOwnership
    <2>2. ASSUME NEW m \in MTokens, NEW ok \in BOOLEAN, VerifyScan(r, m, ok) PROVE LinkInv'
      BY <2>2 DEF VerifyScan
    <2>3. CASE VerifyDropExisting(r)
      BY <2>3 DEF VerifyDropExisting
    <2>4. CASE VerifyPutBlind(r)
      BY <2>4 DEF VerifyPutBlind
    <2>5. CASE VerifyDropIdx(r)
      BY <2>5 DEF VerifyDropIdx
    <2>6. CASE VerifyPutActive(r)
      BY <2>6 DEF VerifyPutActive
    <2>7. CASE VerifyDropPending(r)
      BY <2>7 DEF VerifyDropPending
    <2>8. CASE VerifyMail(r)
      BY <2>8 DEF VerifyMail
    <2>9. QED
      BY <1>3, <2>1, <2>2, <2>3, <2>4, <2>5, <2>6, <2>7, <2>8 DEF VerifyStep
  <1>4. ASSUME NEW r \in Reqs, UnsubscribeStep(r) PROVE LinkInv'
    <2>1. CASE UnsubscribeDropBlind(r)
      BY <2>1 DEF UnsubscribeDropBlind
    <2>2. CASE UnsubscribeDropIdx(r)
      BY <2>2 DEF UnsubscribeDropIdx
    <2>3. CASE UnsubscribeDropActive(r)
      BY <2>3 DEF UnsubscribeDropActive
    <2>4. QED
      BY <1>4, <2>1, <2>2, <2>3 DEF UnsubscribeStep
  <1>5. ASSUME NEW r \in Reqs, pc[r] \notin UnsubPcs, Killed(r) PROVE LinkInv'
    BY <1>5 DEF Killed
  <1>6. CASE Quiet /\ CronList
    BY <1>6 DEF CronList
  <1>7. CASE CronStep
    <2>1. ASSUME NEW m \in MTokens, CronLoad(m) PROVE LinkInv'
      BY <2>1 DEF CronLoad
    <2>2. ASSUME NEW m \in MTokens, CronTake(m) PROVE LinkInv'
      BY <2>2 DEF CronTake
    <2>3. CASE CronLoaded
      BY <2>3 DEF CronLoaded
    <2>4. CASE CronProve
      BY <2>4 DEF CronProve
    <2>5. CASE CronRenew
      BY <2>5 DEF CronRenew
    <2>6. CASE CronScan
      BY <2>6 DEF CronScan
    <2>7. CASE CronAlert
      BY <2>7 DEF CronAlert
    <2>8. CASE CronSave
      BY <2>8 DEF CronSave
    <2>9. CASE CronWriteFails
      BY <2>9 DEF CronWriteFails
    <2>10. CASE CronEnd
      BY <2>10 DEF CronEnd
    <2>11. CASE CronKilled
      BY <2>11 DEF CronKilled
    <2>12. QED
      BY <1>7, <2>1, <2>2, <2>3, <2>4, <2>5, <2>6, <2>7, <2>8, <2>9, <2>10, <2>11 DEF CronStep
  <1>8. CASE Quiet /\ Expiry
    <2>1. ASSUME NEW t \in VTokens, PendingExpires(t) PROVE LinkInv'
      BY <1>8, <2>1 DEF PendingExpires
    <2>2. ASSUME NEW i \in Identities, PendingIdxExpires(i) PROVE LinkInv'
      BY <1>8, <2>2 DEF PendingIdxExpires
    <2>3. QED
      BY <1>8, <2>1, <2>2 DEF Expiry
  <1>9. ASSUME NEW old \in SUBSET MTokens, Quiet, DayPasses(old) PROVE LinkInv'
    BY <1>9 DEF DayPasses
  <1>10. CASE UNCHANGED vars
    BY <1>10 DEF vars
  <1>11. QED
    BY <1>1, <1>2, <1>3, <1>4, <1>5, <1>6, <1>7, <1>8, <1>9, <1>10
    DEF SerialKillNext, SerialNext, RequestStep, DayStep

\* A verify that is cut off after it deleted the record of before can be retried:
\* its link still works until it has stored its own record, whatever is cut off
\* (schedule.ts:396-404).
THEOREM LinkKept == SerialKillSpec => []LinkWorksUntilStored
  <1>1. Init => LinkInv
    BY DEF Init, LinkInv, VerifyPcs
  <1>2. LinkInv => LinkWorksUntilStored
    BY DEF LinkInv, LinkWorksUntilStored
  <1>3. [SerialKillNext]_vars => [Next]_vars
    BY SerialIsNext
  <1>4. QED
    BY TypeInit, TypeStep, SerialInit, AloneStep, LinkStep, <1>1, <1>2, <1>3, PTL
    DEF SerialKillSpec

\* Nobody who works alone writes a record that was cancelled.
LEMMA CancelStep ==
  TypeInv /\ OwnerInv /\ Alone /\ IndexInv /\ CancelInv /\ [SerialKillNext]_vars => CancelInv'
  <1> SUFFICES ASSUME TypeInv, OwnerInv, Alone, IndexInv, CancelInv, [SerialKillNext]_vars
               PROVE  CancelInv'
    OBVIOUS
  <1>a. \A m \in MTokens : due[m] # None => active[m] # None
    BY DEF IndexInv
  <1>b. cronPc \in {"renew", "alert", "save"} => cur \in MTokens /\ due[cur] # None
    BY ConstantsAssumption DEF TypeInv, LocalsOK, InHand
  <1> USE ConstantsAssumption
      DEF TypeInv, TypeOK, LocalsOK, CronPcs, SubscribePcs, VerifyPcs,
          UnsubPcs, HasLink, Minted, InHand, Alone, Quiet, Step, Goto, Finish,
          DeleteActive, CronGoto, CronSkip, CronStop, kv, args, locals, cron,
          links, tokens, world, CancelInv, PrePut, OwnerInv, TokensKeepTheirOwner, Record
  <1>1. ASSUME NEW r \in Reqs, Quiet, RequestStart(r) PROVE CancelInv'
    <2>1. ASSUME NEW i \in Identities, SubscribeStart(r, i) PROVE CancelInv'
      BY <1>1, <2>1, <1>a, <1>b DEF SubscribeStart
    <2>2. ASSUME NEW t \in VTokens, VerifyStart(r, t) PROVE CancelInv'
      BY <1>1, <2>2, <1>a, <1>b DEF VerifyStart
    <2>3. ASSUME NEW m \in MTokens, UnsubscribeAbsent(r, m) PROVE CancelInv'
      BY <1>1, <2>3, <1>a, <1>b DEF UnsubscribeAbsent
    <2>4. ASSUME NEW m \in MTokens, UnsubscribeStart(r, m) PROVE CancelInv'
      BY <1>1, <2>4, <1>a, <1>b DEF UnsubscribeStart
    <2>5. QED
      BY <1>1, <2>1, <2>2, <2>3, <2>4 DEF RequestStart
  <1>2. ASSUME NEW r \in Reqs, SubscribeStep(r) PROVE CancelInv'
    <2>1. CASE SubscribeCheckActive(r)
      BY <2>1, <1>a, <1>b DEF SubscribeCheckActive
    <2>2. CASE SubscribeReadIdx(r)
      BY <2>2, <1>a, <1>b DEF SubscribeReadIdx
    <2>3. CASE SubscribeDropPrevious(r)
      BY <2>3, <1>a, <1>b DEF SubscribeDropPrevious
    <2>4. ASSUME NEW t \in VTokens, SubscribePut(r, t) PROVE CancelInv'
      BY <2>4, <1>a, <1>b DEF SubscribePut
    <2>5. CASE SubscribePutIdx(r)
      BY <2>5, <1>a, <1>b DEF SubscribePutIdx
    <2>6. CASE SubscribeMail(r)
      BY <2>6, <1>a, <1>b DEF SubscribeMail
    <2>7. CASE SubscribeUndo(r)
      BY <2>7, <1>a, <1>b DEF SubscribeUndo
    <2>8. CASE SubscribeUndoIdx(r)
      BY <2>8, <1>a, <1>b DEF SubscribeUndoIdx
    <2>9. QED
      BY <1>2, <2>1, <2>2, <2>3, <2>4, <2>5, <2>6, <2>7, <2>8 DEF SubscribeStep
  <1>3. ASSUME NEW r \in Reqs, VerifyStep(r) PROVE CancelInv'
    <2>1. CASE VerifyOwnership(r)
      BY <2>1, <1>a, <1>b DEF VerifyOwnership
    <2>2. ASSUME NEW m \in MTokens, NEW ok \in BOOLEAN, VerifyScan(r, m, ok) PROVE CancelInv'
      BY <2>2, <1>a, <1>b DEF VerifyScan
    <2>3. CASE VerifyDropExisting(r)
      BY <2>3, <1>a, <1>b DEF VerifyDropExisting
    <2>4. CASE VerifyPutBlind(r)
      BY <2>4, <1>a, <1>b DEF VerifyPutBlind
    <2>5. CASE VerifyDropIdx(r)
      BY <2>5, <1>a, <1>b DEF VerifyDropIdx
    <2>6. CASE VerifyPutActive(r)
      BY <2>6, <1>a, <1>b DEF VerifyPutActive
    <2>7. CASE VerifyDropPending(r)
      BY <2>7, <1>a, <1>b DEF VerifyDropPending
    <2>8. CASE VerifyMail(r)
      BY <2>8, <1>a, <1>b DEF VerifyMail
    <2>9. QED
      BY <1>3, <2>1, <2>2, <2>3, <2>4, <2>5, <2>6, <2>7, <2>8 DEF VerifyStep
  <1>4. ASSUME NEW r \in Reqs, UnsubscribeStep(r) PROVE CancelInv'
    <2>1. CASE UnsubscribeDropBlind(r)
      BY <2>1, <1>a, <1>b DEF UnsubscribeDropBlind
    <2>2. CASE UnsubscribeDropIdx(r)
      BY <2>2, <1>a, <1>b DEF UnsubscribeDropIdx
    <2>3. CASE UnsubscribeDropActive(r)
      BY <2>3, <1>a, <1>b DEF UnsubscribeDropActive
    <2>4. QED
      BY <1>4, <2>1, <2>2, <2>3 DEF UnsubscribeStep
  <1>5. ASSUME NEW r \in Reqs, pc[r] \notin UnsubPcs, Killed(r) PROVE CancelInv'
    BY <1>5, <1>a, <1>b DEF Killed
  <1>6. CASE Quiet /\ CronList
    BY <1>6, <1>a, <1>b DEF CronList
  <1>7. CASE CronStep
    <2>1. ASSUME NEW m \in MTokens, CronLoad(m) PROVE CancelInv'
      BY <2>1, <1>a, <1>b DEF CronLoad
    <2>2. ASSUME NEW m \in MTokens, CronTake(m) PROVE CancelInv'
      BY <2>2, <1>a, <1>b DEF CronTake
    <2>3. CASE CronLoaded
      BY <2>3, <1>a, <1>b DEF CronLoaded
    <2>4. CASE CronProve
      BY <2>4, <1>a, <1>b DEF CronProve
    <2>5. CASE CronRenew
      BY <2>5, <1>a, <1>b DEF CronRenew
    <2>6. CASE CronScan
      BY <2>6, <1>a, <1>b DEF CronScan
    <2>7. CASE CronAlert
      BY <2>7, <1>a, <1>b DEF CronAlert
    <2>8. CASE CronSave
      BY <2>8, <1>a, <1>b DEF CronSave
    <2>9. CASE CronWriteFails
      BY <2>9, <1>a, <1>b DEF CronWriteFails
    <2>10. CASE CronEnd
      BY <2>10, <1>a, <1>b DEF CronEnd
    <2>11. CASE CronKilled
      BY <2>11, <1>a, <1>b DEF CronKilled
    <2>12. QED
      BY <1>7, <2>1, <2>2, <2>3, <2>4, <2>5, <2>6, <2>7, <2>8, <2>9, <2>10, <2>11 DEF CronStep
  <1>8. CASE Quiet /\ Expiry
    <2>1. ASSUME NEW t \in VTokens, PendingExpires(t) PROVE CancelInv'
      BY <1>8, <2>1, <1>a, <1>b DEF PendingExpires
    <2>2. ASSUME NEW i \in Identities, PendingIdxExpires(i) PROVE CancelInv'
      BY <1>8, <2>2, <1>a, <1>b DEF PendingIdxExpires
    <2>3. QED
      BY <1>8, <2>1, <2>2 DEF Expiry
  <1>9. ASSUME NEW old \in SUBSET MTokens, Quiet, DayPasses(old) PROVE CancelInv'
    BY <1>9, <1>a, <1>b DEF DayPasses
  <1>10. CASE UNCHANGED vars
    BY <1>10, <1>a, <1>b DEF vars
  <1>11. QED
    BY <1>1, <1>2, <1>3, <1>4, <1>5, <1>6, <1>7, <1>8, <1>9, <1>10
    DEF SerialKillNext, SerialNext, RequestStep, DayStep

\* A subscription whose unsubscribe was answered does not come back, when nothing
\* overlaps but a subscribe or a verify may be cut off anywhere
\* (schedule.ts:505-531).
THEOREM CancelIsFinal == SerialKillSpec => []CancelledStaysCancelled
  <1>1. Init => CancelInv
    BY DEF Init, CancelInv
  <1>2. CancelInv => CancelledStaysCancelled
    BY DEF CancelInv, CancelledStaysCancelled
  <1>3. [SerialKillNext]_vars => [Next]_vars
    BY SerialIsNext
  <1>4. QED
    BY TypeInit, TypeStep, OwnerInit, OwnerStep, GoneInit, GoneStep, SerialInit,
       AloneStep, IndexStep, CancelStep, <1>1, <1>2, <1>3, PTL DEF SerialKillSpec

-----------------------------------------------------------------------------
(* One link and one subscription per identity, never both, when nothing    *)
(* overlaps and nothing is cut off.                                        *)

\* The steps in which nothing is cut off are among those above.
LEMMA UncutIsSerial == [SerialNext]_vars => [SerialKillNext]_vars
  BY DEF SerialKillNext

\* The handler at work keeps the index and the links in step.
LEMMA PendingStep ==
  TypeInv /\ OwnerInv /\ Alone /\ IndexInv /\ LinkInv /\ PendingInv /\ [SerialNext]_vars
    => PendingInv'
  <1> SUFFICES ASSUME TypeInv, OwnerInv, Alone, IndexInv, LinkInv, PendingInv, [SerialNext]_vars
               PROVE  PendingInv'
    OBVIOUS
  <1> USE ConstantsAssumption
      DEF TypeInv, TypeOK, LocalsOK, CronPcs, SubscribePcs, VerifyPcs,
          UnsubPcs, HasLink, Minted, InHand, Alone, Quiet, Step, Goto, Finish,
          DeleteActive, CronGoto, CronSkip, CronStop, kv, args, locals, cron,
          links, tokens, world, PrePut, OwnerInv, TokensKeepTheirOwner, OwnLink, Record,
          PendingInv, Subscribing, IndexInv, ActiveIsIndexed, LinkInv
  <1>1. ASSUME NEW r \in Reqs, Quiet, RequestStart(r) PROVE PendingInv'
    <2>1. ASSUME NEW i \in Identities, SubscribeStart(r, i) PROVE PendingInv'
      BY <1>1, <2>1 DEF SubscribeStart
    <2>2. ASSUME NEW t \in VTokens, VerifyStart(r, t) PROVE PendingInv'
      BY <1>1, <2>2 DEF VerifyStart
    <2>3. ASSUME NEW m \in MTokens, UnsubscribeAbsent(r, m) PROVE PendingInv'
      BY <1>1, <2>3 DEF UnsubscribeAbsent
    <2>4. ASSUME NEW m \in MTokens, UnsubscribeStart(r, m) PROVE PendingInv'
      BY <1>1, <2>4 DEF UnsubscribeStart
    <2>5. QED
      BY <1>1, <2>1, <2>2, <2>3, <2>4 DEF RequestStart
  <1>2. ASSUME NEW r \in Reqs, SubscribeStep(r) PROVE PendingInv'
    <2>1. CASE SubscribeCheckActive(r)
      BY SMTT(30), <2>1 DEF SubscribeCheckActive
    <2>2. CASE SubscribeReadIdx(r)
      BY SMTT(30), <2>2 DEF SubscribeReadIdx
    <2>3. CASE SubscribeDropPrevious(r)
      <3>1. /\ pc[r] = "s_drop" /\ pc' = [pc EXCEPT ![r] = "s_put"]
            /\ pending' = [pending EXCEPT ![vtok[r]] = None]
            /\ UNCHANGED <<pendingIdx, active, blind, args, cron>>
        BY <2>3 DEF SubscribeDropPrevious
      <3>2. \A s \in Reqs : s # r => pc[s] = "idle" /\ pc'[s] = "idle"
        BY <3>1
      <3>3. \A t \in VTokens : pending[t] = who[r] => t = vtok[r]
        BY <3>1, <3>2
      <3>4. \A t \in VTokens : pending'[t] # who[r]
        BY <3>1, <3>3
      <3>5. \A t \in VTokens : pending'[t] # None => pending[t] = pending'[t]
        BY <3>1
      <3>6. QED
        BY <3>1, <3>2, <3>4, <3>5
    <2>4. ASSUME NEW t \in VTokens, SubscribePut(r, t) PROVE PendingInv'
      BY <2>4 DEF SubscribePut
    <2>5. CASE SubscribePutIdx(r)
      BY <2>5 DEF SubscribePutIdx
    <2>6. CASE SubscribeMail(r)
      BY SMTT(30), <2>6 DEF SubscribeMail
    <2>7. CASE SubscribeUndo(r)
      BY <2>7 DEF SubscribeUndo
    <2>8. CASE SubscribeUndoIdx(r)
      BY <2>8 DEF SubscribeUndoIdx
    <2>9. QED
      BY <1>2, <2>1, <2>2, <2>3, <2>4, <2>5, <2>6, <2>7, <2>8 DEF SubscribeStep
  <1>3. ASSUME NEW r \in Reqs, VerifyStep(r) PROVE PendingInv'
    <2>1. CASE VerifyOwnership(r)
      BY <2>1 DEF VerifyOwnership
    <2>2. ASSUME NEW m \in MTokens, NEW ok \in BOOLEAN, VerifyScan(r, m, ok) PROVE PendingInv'
      BY <2>2 DEF VerifyScan
    <2>3. CASE VerifyDropExisting(r)
      BY <2>3 DEF VerifyDropExisting
    <2>4. CASE VerifyPutBlind(r)
      BY <2>4 DEF VerifyPutBlind
    <2>5. CASE VerifyDropIdx(r)
      BY <2>5 DEF VerifyDropIdx
    <2>6. CASE VerifyPutActive(r)
      BY <2>6 DEF VerifyPutActive
    <2>7. CASE VerifyDropPending(r)
      BY <2>7 DEF VerifyDropPending
    <2>8. CASE VerifyMail(r)
      BY <2>8 DEF VerifyMail
    <2>9. QED
      BY <1>3, <2>1, <2>2, <2>3, <2>4, <2>5, <2>6, <2>7, <2>8 DEF VerifyStep
  <1>4. ASSUME NEW r \in Reqs, UnsubscribeStep(r) PROVE PendingInv'
    <2>1. CASE UnsubscribeDropBlind(r)
      BY <2>1 DEF UnsubscribeDropBlind
    <2>2. CASE UnsubscribeDropIdx(r)
      BY <2>2 DEF UnsubscribeDropIdx
    <2>3. CASE UnsubscribeDropActive(r)
      BY <2>3 DEF UnsubscribeDropActive
    <2>4. QED
      BY <1>4, <2>1, <2>2, <2>3 DEF UnsubscribeStep
  <1>5. CASE Quiet /\ CronList
    BY <1>5 DEF CronList
  <1>6. CASE CronStep
    <2>1. ASSUME NEW m \in MTokens, CronLoad(m) PROVE PendingInv'
      BY <2>1 DEF CronLoad
    <2>2. ASSUME NEW m \in MTokens, CronTake(m) PROVE PendingInv'
      BY <2>2 DEF CronTake
    <2>3. CASE CronLoaded
      BY <2>3 DEF CronLoaded
    <2>4. CASE CronProve
      BY <2>4 DEF CronProve
    <2>5. CASE CronRenew
      BY <2>5 DEF CronRenew
    <2>6. CASE CronScan
      BY <2>6 DEF CronScan
    <2>7. CASE CronAlert
      BY <2>7 DEF CronAlert
    <2>8. CASE CronSave
      <3>1. /\ Scanned(due[cur]).who = due[cur].who /\ Scanned(due[cur]) # None
            /\ cur \in MTokens /\ due[cur] # None
        BY <2>8, RecordUpdates DEF CronSave
      <3>2. QED
        BY <2>8, <3>1 DEF CronSave
    <2>9. CASE CronWriteFails
      BY <2>9 DEF CronWriteFails
    <2>10. CASE CronEnd
      BY <2>10 DEF CronEnd
    <2>11. CASE CronKilled
      BY <2>11 DEF CronKilled
    <2>12. QED
      BY <1>6, <2>1, <2>2, <2>3, <2>4, <2>5, <2>6, <2>7, <2>8, <2>9, <2>10, <2>11 DEF CronStep
  <1>7. CASE Quiet /\ Expiry
    <2>1. ASSUME NEW t \in VTokens, PendingExpires(t) PROVE PendingInv'
      BY <1>7, <2>1 DEF PendingExpires
    <2>2. ASSUME NEW i \in Identities, PendingIdxExpires(i) PROVE PendingInv'
      BY <1>7, <2>2 DEF PendingIdxExpires
    <2>3. QED
      BY <1>7, <2>1, <2>2 DEF Expiry
  <1>8. ASSUME NEW old \in SUBSET MTokens, Quiet, DayPasses(old) PROVE PendingInv'
    <2>1. ASSUME NEW m \in MTokens
          PROVE  active'[m] # None => active[m] # None /\ active'[m].who = active[m].who
      BY <1>8, RecordUpdates DEF DayPasses
    <2>2. UNCHANGED <<pending, pendingIdx, blind, locals, cron>> /\ \A r \in Reqs : pc[r] = "idle"
      BY <1>8 DEF DayPasses
    <2>3. QED
      BY <2>1, <2>2
  <1>9. CASE UNCHANGED vars
    BY <1>9 DEF vars
  <1>10. QED
    BY <1>1, <1>2, <1>3, <1>4, <1>5, <1>6, <1>7, <1>8, <1>9
    DEF SerialNext, RequestStep, DayStep

\* At most one link works per identity, when nothing overlaps (schedule.ts:205).
THEOREM OneLink == SerialSpec => []OneLivePending
  <1>1. Init => LinkInv /\ PendingInv
    BY ConstantsAssumption
       DEF Init, LinkInv, PendingInv, VerifyPcs, SubscribePcs, UnsubPcs, Subscribing, PrePut
  <1>2. TypeInv /\ OwnerInv /\ Alone /\ PendingInv => OneLivePending
    <2> SUFFICES ASSUME TypeInv, OwnerInv, Alone, PendingInv,
                        NEW t \in VTokens, NEW u \in VTokens,
                        pending[t] # None, pending[t] = pending[u]
                 PROVE  t = u
      BY DEF OneLivePending
    <2>1. CASE \E r \in Reqs : pc[r] \in {"s_putidx", "v_active", "v_pend"} /\ vtok[r] \in {t, u}
      <3>1. PICK r \in Reqs : pc[r] \in {"s_putidx", "v_active", "v_pend"} /\ vtok[r] \in {t, u}
        BY <2>1
      <3>2. pending[t] = who[r] /\ pending[u] = who[r]
        BY <3>1 DEF OwnerInv, OwnLink, VerifyPcs, TokensKeepTheirOwner
      <3>3. QED
        BY <3>1, <3>2 DEF PendingInv, VerifyPcs
    <2>2. CASE ~ \E r \in Reqs : pc[r] \in {"s_putidx", "v_active", "v_pend"} /\ vtok[r] \in {t, u}
      BY <2>2 DEF PendingInv
    <2>3. QED
      BY <2>1, <2>2
  <1>3. [SerialKillNext]_vars => [Next]_vars
    BY SerialIsNext
  <1>4. QED
    BY TypeInit, TypeStep, OwnerInit, OwnerStep, GoneInit, GoneStep, SerialInit, AloneStep,
       IndexStep, LinkStep, PendingStep, UncutIsSerial, <1>1, <1>2, <1>3, PTL DEF SerialSpec

-----------------------------------------------------------------------------
(* The refinement of Subscription: what each kind of write is to a         *)
(* subscriber.                                                             *)

\* A function of the identities is known by its values.
LEMMA OverIdentities ==
  /\ \A v : \A i \in Identities :
       (\A j \in Identities : Offered'[j] = IF j = i THEN v ELSE Offered[j])
         => Offered' = [Offered EXCEPT ![i] = v]
  /\ \A v : \A i \in Identities :
       (\A j \in Identities : Monitored'[j] = IF j = i THEN v ELSE Monitored[j])
         => Monitored' = [Monitored EXCEPT ![i] = v]
  <1>1. /\ Offered = [j \in Identities |-> Offered[j]]
        /\ Offered' = [j \in Identities |-> Offered'[j]]
    BY DEF Offered
  <1>2. /\ Monitored = [j \in Identities |-> Monitored[j]]
        /\ Monitored' = [j \in Identities |-> Monitored'[j]]
    BY DEF Monitored
  <1>3. QED
    BY <1>1, <1>2

\* Writes to the indexes are not seen.
LEMMA Still ==
  ASSUME UNCHANGED <<pending, active>> PROVE [Sub!Next]_(Sub!svars)
  BY DEF Sub!svars, Offered, Monitored

\* A record is rewritten for the same identity, or ages.
LEMMA RecordRewritten ==
  ASSUME UNCHANGED pending,
         \A m \in MTokens : /\ active'[m] # None <=> active[m] # None
                            /\ active[m] # None => active'[m].who = active[m].who
  PROVE  [Sub!Next]_(Sub!svars)
  BY DEF Sub!svars, Offered, Monitored

\* The only link of an identity is dropped, if it still was there.
LEMMA LinkDropped ==
  ASSUME TypeInv, NEW i \in Identities, NEW t \in VTokens,
         pending[t] # None => pending[t] = i,
         \A u \in VTokens : pending[u] = i => u = t,
         pending' = [pending EXCEPT ![t] = None], UNCHANGED active
  PROVE  [Sub!Next]_(Sub!svars)
  <1>1. Monitored' = Monitored
    BY DEF Monitored
  <1>2. CASE pending[t] = None
    BY <1>2, Still DEF TypeInv, TypeOK
  <1>3. CASE pending[t] = i
    <2>1. Offered[i] # {}
      BY <1>3 DEF Offered
    <2>2. ASSUME NEW j \in Identities PROVE Offered'[j] = IF j = i THEN {} ELSE Offered[j]
      BY <1>3, ConstantsAssumption DEF Offered, TypeInv, TypeOK
    <2>3. Offered' = [Offered EXCEPT ![i] = {}]
      BY <2>2, OverIdentities
    <2>4. Sub!Withdraw(i)
      BY <1>1, <2>1, <2>3 DEF Sub!Withdraw
    <2>5. QED
      BY <2>4 DEF Sub!Next
  <1>4. QED
    BY <1>2, <1>3

\* A link is made for an identity that has nothing.
LEMMA LinkOffered ==
  ASSUME TypeInv, NEW i \in Identities, NEW t \in VTokens, pending[t] = None,
         \A u \in VTokens : pending[u] # i,
         \A m \in MTokens : active[m] # None => active[m].who # i,
         pending' = [pending EXCEPT ![t] = i], UNCHANGED active
  PROVE  [Sub!Next]_(Sub!svars)
  <1>1. Monitored' = Monitored /\ Monitored[i] = {}
    BY DEF Monitored
  <1>2. Offered[i] = {} /\ \A j \in Identities : t \notin Offered[j]
    BY ConstantsAssumption DEF Offered
  <1>3. Offered' = [Offered EXCEPT ![i] = {t}]
    <2>1. ASSUME NEW j \in Identities PROVE Offered'[j] = IF j = i THEN {t} ELSE Offered[j]
      BY ConstantsAssumption DEF Offered, TypeInv, TypeOK
    <2>2. QED
      BY <2>1, OverIdentities
  <1>4. Sub!Offer(i, t)
    BY <1>1, <1>2, <1>3 DEF Sub!Offer
  <1>5. QED
    BY <1>4 DEF Sub!Next

\* The record of an identity that has a link and no record is stored.
LEMMA RecordStored ==
  ASSUME TypeInv, NEW i \in Identities, NEW t \in VTokens, NEW m \in MTokens, NEW b \in BOOLEAN,
         pending[t] = i, active[m] = None,
         \A n \in MTokens : active[n] # None => active[n].who # i,
         active' = [active EXCEPT ![m] = [who |-> i, own |-> t, base |-> b,
                                          recent |-> TRUE, proof |-> TRUE]],
         UNCHANGED pending
  PROVE  [Sub!Next]_(Sub!svars)
  <1> DEFINE rec == [who |-> i, own |-> t, base |-> b, recent |-> TRUE, proof |-> TRUE]
  <1>1. rec # None /\ rec.who = i
    <2>1. rec \in Record
      BY DEF Record
    <2>2. QED
      BY <2>1, ConstantsAssumption
  <1>2. Offered' = Offered /\ Offered[i] # {}
    BY DEF Offered
  <1>3. Monitored[i] = {} /\ \A j \in Identities : m \notin Monitored[j]
    BY DEF Monitored
  <1> HIDE DEF rec
  <1>4. active' = [active EXCEPT ![m] = rec]
    BY DEF rec
  <1>5. Monitored' = [Monitored EXCEPT ![i] = {m}]
    <2>1. ASSUME NEW j \in Identities PROVE Monitored'[j] = IF j = i THEN {m} ELSE Monitored[j]
      <3>1. \A n \in MTokens : active'[n] = IF n = m THEN rec ELSE active[n]
        BY <1>4 DEF TypeInv, TypeOK
      <3>2. QED
        BY ZenonT(30), <1>1, <3>1 DEF Monitored
    <2>2. QED
      BY <2>1, OverIdentities
  <1>6. Sub!Activate(i, m)
    BY <1>2, <1>3, <1>5 DEF Sub!Activate
  <1>7. QED
    BY <1>6 DEF Sub!Next

\* The only record of an identity is deleted, if it still was there.
LEMMA RecordDropped ==
  ASSUME TypeInv, NEW i \in Identities, NEW m \in MTokens,
         active[m] # None => active[m].who = i,
         \A n \in MTokens : active[n] # None /\ active[n].who = i => n = m,
         active' = [active EXCEPT ![m] = None], UNCHANGED pending
  PROVE  [Sub!Next]_(Sub!svars)
  <1>1. Offered' = Offered
    BY DEF Offered
  <1>2. CASE active[m] = None
    BY <1>2, Still DEF TypeInv, TypeOK
  <1>3. CASE active[m] # None
    <2>1. Monitored[i] # {}
      BY <1>3 DEF Monitored
    <2>2. ASSUME NEW j \in Identities PROVE Monitored'[j] = IF j = i THEN {} ELSE Monitored[j]
      BY <1>3 DEF Monitored, TypeInv, TypeOK
    <2>3. Monitored' = [Monitored EXCEPT ![i] = {}]
      BY <2>2, OverIdentities
    <2>4. Sub!Cancel(i)
      BY <1>1, <2>1, <2>3 DEF Sub!Cancel
    <2>5. QED
      BY <2>4 DEF Sub!Next
  <1>4. QED
    BY <1>2, <1>3

\* Every step of the service is one of the promise, or not seen.
LEMMA SubscriptionStep ==
  TypeInv /\ OwnerInv /\ GoneInv /\ Alone /\ IndexInv /\ LinkInv /\ PendingInv /\ [SerialNext]_vars
    => [Sub!Next]_(Sub!svars)
  <1> SUFFICES ASSUME TypeInv, OwnerInv, GoneInv, Alone, IndexInv, LinkInv, PendingInv,
                      [SerialNext]_vars
               PROVE  [Sub!Next]_(Sub!svars)
    OBVIOUS
  <1> USE DEF kv, CronStop
  <1>1. ASSUME NEW r \in Reqs, Quiet, RequestStart(r) PROVE [Sub!Next]_(Sub!svars)
    <2>1. ASSUME NEW i \in Identities, SubscribeStart(r, i) PROVE [Sub!Next]_(Sub!svars)
      BY <1>1, <2>1, Still DEF SubscribeStart
    <2>2. ASSUME NEW t \in VTokens, VerifyStart(r, t) PROVE [Sub!Next]_(Sub!svars)
      BY <1>1, <2>2, Still DEF VerifyStart
    <2>3. ASSUME NEW m \in MTokens, UnsubscribeAbsent(r, m) PROVE [Sub!Next]_(Sub!svars)
      BY <1>1, <2>3, Still DEF UnsubscribeAbsent
    <2>4. ASSUME NEW m \in MTokens, UnsubscribeStart(r, m) PROVE [Sub!Next]_(Sub!svars)
      BY <1>1, <2>4, Still DEF UnsubscribeStart
    <2>5. QED
      BY <1>1, <2>1, <2>2, <2>3, <2>4 DEF RequestStart
  <1>2. ASSUME NEW r \in Reqs, SubscribeStep(r) PROVE [Sub!Next]_(Sub!svars)
    <2>1. CASE SubscribeCheckActive(r)
      BY <2>1, Still DEF SubscribeCheckActive
    <2>2. CASE SubscribeReadIdx(r)
      BY <2>2, Still DEF SubscribeReadIdx
    <2>3. CASE SubscribeDropPrevious(r)
      <3>1. pc[r] = "s_drop" /\ pending' = [pending EXCEPT ![vtok[r]] = None] /\ active' = active
        BY <2>3 DEF SubscribeDropPrevious, Step
      <3>2. who[r] \in Identities /\ vtok[r] \in VTokens /\ vtok[r] = pendingIdx[who[r]]
        BY <3>1 DEF TypeInv, LocalsOK, HasLink, PendingInv
      <3>3. pending[vtok[r]] # None => pending[vtok[r]] = who[r]
        BY <3>1, <3>2, ConstantsAssumption DEF OwnerInv, TokensKeepTheirOwner
      <3>4. \A s \in Reqs : pc[s] \notin {"s_putidx", "v_active", "v_pend"}
        BY <3>1 DEF Alone
      <3>5. \A t \in VTokens : pending[t] = who[r] => t = vtok[r]
        BY <3>2, <3>4, ConstantsAssumption DEF PendingInv
      <3>6. QED
        BY <3>1, <3>2, <3>3, <3>5, LinkDropped
    <2>4. ASSUME NEW t \in VTokens, SubscribePut(r, t) PROVE [Sub!Next]_(Sub!svars)
      <3>1. /\ pc[r] = "s_put" /\ issued[t] = None
            /\ pending' = [pending EXCEPT ![t] = who[r]] /\ active' = active
        BY <2>4 DEF SubscribePut, Step
      <3>2. who[r] \in Identities
        BY <3>1 DEF TypeInv, LocalsOK
      <3>3. pending[t] = None
        BY <3>1 DEF OwnerInv, TokensKeepTheirOwner
      <3>4. /\ \A u \in VTokens : pending[u] # who[r]
            /\ \A m \in MTokens : active[m] # None => active[m].who # who[r]
        BY <3>1 DEF PendingInv, Subscribing, SubscribePcs
      <3>5. QED
        BY <3>1, <3>2, <3>3, <3>4, LinkOffered
    <2>5. CASE SubscribePutIdx(r)
      BY <2>5, Still DEF SubscribePutIdx
    <2>6. CASE SubscribeMail(r)
      BY <2>6, Still DEF SubscribeMail
    <2>7. CASE SubscribeUndo(r)
      <3>1. pc[r] = "s_undo" /\ pending' = [pending EXCEPT ![vtok[r]] = None] /\ active' = active
        BY <2>7 DEF SubscribeUndo, Step
      <3>2. /\ who[r] \in Identities /\ vtok[r] \in VTokens /\ issued[vtok[r]] = who[r]
            /\ \A t \in VTokens : pending[t] = who[r] => t = vtok[r]
        BY <3>1 DEF TypeInv, LocalsOK, HasLink, OwnLink, OwnerInv, PendingInv
      <3>3. pending[vtok[r]] # None => pending[vtok[r]] = who[r]
        BY <3>2 DEF OwnerInv, TokensKeepTheirOwner
      <3>4. QED
        BY <3>1, <3>2, <3>3, LinkDropped
    <2>8. CASE SubscribeUndoIdx(r)
      BY <2>8, Still DEF SubscribeUndoIdx
    <2>9. QED
      BY <1>2, <2>1, <2>2, <2>3, <2>4, <2>5, <2>6, <2>7, <2>8 DEF SubscribeStep
  <1>3. ASSUME NEW r \in Reqs, VerifyStep(r) PROVE [Sub!Next]_(Sub!svars)
    <2>1. CASE VerifyOwnership(r)
      BY <2>1, Still DEF VerifyOwnership
    <2>2. ASSUME NEW m \in MTokens, NEW ok \in BOOLEAN, VerifyScan(r, m, ok) PROVE [Sub!Next]_(Sub!svars)
      BY <2>2, Still DEF VerifyScan
    <2>3. CASE VerifyDropExisting(r)
      <3>1. /\ pc[r] = "v_drop" /\ pending' = pending
            /\ active' = [active EXCEPT ![found[r]] = None]
        BY <2>3 DEF VerifyDropExisting, Step, DeleteActive
      <3>2. /\ who[r] \in Identities /\ found[r] \in MTokens /\ found[r] = blind[who[r]]
            /\ \A m \in MTokens : active[m] # None => active[m].who # who[r]
        BY <3>1 DEF TypeInv, LocalsOK, IndexInv, PendingInv, PrePut
      <3>3. active[found[r]] = None
        BY <3>2, ConstantsAssumption DEF OwnerInv, TokensKeepTheirOwner
      <3>4. active' = active
        BY <3>1, <3>2, <3>3 DEF TypeInv, TypeOK
      <3>5. QED
        BY <3>1, <3>4, Still
    <2>4. CASE VerifyPutBlind(r)
      BY <2>4, Still DEF VerifyPutBlind
    <2>5. CASE VerifyDropIdx(r)
      BY <2>5, Still DEF VerifyDropIdx
    <2>6. CASE VerifyPutActive(r)
      <3>1. /\ pc[r] = "v_active" /\ pending' = pending
            /\ active' = [active EXCEPT ![mtok[r]] =
                            [who |-> who[r], own |-> vtok[r], base |-> base[r],
                             recent |-> TRUE, proof |-> TRUE]]
        BY <2>6 DEF VerifyPutActive, Step
      <3>2. /\ who[r] \in Identities /\ vtok[r] \in VTokens /\ mtok[r] \in MTokens
            /\ base[r] \in BOOLEAN
            /\ active[mtok[r]] = None
            /\ \A m \in MTokens : active[m] # None => active[m].who # who[r]
        BY <3>1 DEF TypeInv, TypeOK, LocalsOK, HasLink, VerifyPcs, Minted, PrePut, GoneInv, PendingInv
      <3>3. pending[vtok[r]] = who[r]
        BY <3>1, <3>2 DEF LinkInv, VerifyPcs, OwnerInv, OwnLink, TokensKeepTheirOwner
      <3>4. QED
        BY <3>1, <3>2, <3>3, RecordStored
    <2>7. CASE VerifyDropPending(r)
      <3>1. pc[r] = "v_pend" /\ pending' = [pending EXCEPT ![vtok[r]] = None] /\ active' = active
        BY <2>7 DEF VerifyDropPending, Step
      <3>2. /\ who[r] \in Identities /\ vtok[r] \in VTokens /\ issued[vtok[r]] = who[r]
            /\ \A t \in VTokens : pending[t] = who[r] => t = vtok[r]
        BY <3>1 DEF TypeInv, LocalsOK, HasLink, VerifyPcs, OwnLink, OwnerInv, PendingInv
      <3>3. pending[vtok[r]] # None => pending[vtok[r]] = who[r]
        BY <3>2 DEF OwnerInv, TokensKeepTheirOwner
      <3>4. QED
        BY <3>1, <3>2, <3>3, LinkDropped
    <2>8. CASE VerifyMail(r)
      BY <2>8, Still DEF VerifyMail
    <2>9. QED
      BY <1>3, <2>1, <2>2, <2>3, <2>4, <2>5, <2>6, <2>7, <2>8 DEF VerifyStep
  <1>4. ASSUME NEW r \in Reqs, UnsubscribeStep(r) PROVE [Sub!Next]_(Sub!svars)
    <2>1. CASE UnsubscribeDropBlind(r)
      BY <2>1, Still DEF UnsubscribeDropBlind
    <2>2. CASE UnsubscribeDropIdx(r)
      BY <2>2, Still DEF UnsubscribeDropIdx
    <2>3. CASE UnsubscribeDropActive(r)
      <3>1. /\ pc[r] = "u_active" /\ pending' = pending
            /\ active' = [active EXCEPT ![mtok[r]] = None]
        BY <2>3 DEF UnsubscribeDropActive, DeleteActive
      <3>2. /\ who[r] \in Identities /\ mtok[r] \in MTokens /\ owner[mtok[r]] = who[r]
            /\ blind[who[r]] = None
        BY <3>1 DEF TypeInv, LocalsOK, UnsubPcs, OwnerInv, IndexInv
      <3>3. \A m \in MTokens : active[m] # None /\ active[m].who = who[r] => m = mtok[r]
        BY <3>1, <3>2, ConstantsAssumption DEF IndexInv, ActiveIsIndexed, Alone
      <3>4. active[mtok[r]] # None => active[mtok[r]].who = who[r]
        BY <3>2 DEF OwnerInv, TokensKeepTheirOwner
      <3>5. QED
        BY <3>1, <3>2, <3>3, <3>4, RecordDropped
    <2>4. QED
      BY <1>4, <2>1, <2>2, <2>3 DEF UnsubscribeStep
  <1>5. CASE Quiet /\ CronList
    BY <1>5, Still DEF CronList
  <1>6. CASE CronStep
    <2>1. ASSUME NEW m \in MTokens, CronLoad(m) PROVE [Sub!Next]_(Sub!svars)
      BY <2>1, Still DEF CronLoad
    <2>2. ASSUME NEW m \in MTokens, CronTake(m) PROVE [Sub!Next]_(Sub!svars)
      BY <2>2, Still DEF CronTake
    <2>3. CASE CronLoaded
      BY <2>3, Still DEF CronLoaded
    <2>4. CASE CronProve
      BY <2>4, Still DEF CronProve
    <2>5. CASE CronRenew
      <3>1. /\ cur \in MTokens /\ due[cur] \in Record /\ active[cur] # None
            /\ active[cur].who = due[cur].who
        BY <2>5, ConstantsAssumption
           DEF CronRenew, TypeInv, LocalsOK, InHand, IndexInv, OwnerInv, TokensKeepTheirOwner
      <3>2. active' = [active EXCEPT ![cur] = due[cur]]
        BY <2>5 DEF CronRenew
      <3>3. \A m \in MTokens : /\ active'[m] # None <=> active[m] # None
                               /\ active[m] # None => active'[m].who = active[m].who
        BY <3>1, <3>2, ConstantsAssumption DEF TypeInv, TypeOK
      <3>4. UNCHANGED pending
        BY <2>5 DEF CronRenew
      <3>5. QED
        BY <3>3, <3>4, RecordRewritten
    <2>6. CASE CronScan
      BY <2>6, Still DEF CronScan
    <2>7. CASE CronAlert
      BY <2>7, Still DEF CronAlert
    <2>8. CASE CronSave
      <3>1. /\ cur \in MTokens /\ due[cur] \in Record /\ active[cur] # None
            /\ active[cur].who = due[cur].who
        BY <2>8, ConstantsAssumption
           DEF CronSave, TypeInv, LocalsOK, InHand, IndexInv, OwnerInv, TokensKeepTheirOwner
      <3>2. active' = [active EXCEPT ![cur] = Scanned(due[cur])]
        BY <2>8 DEF CronSave
      <3>3. \A m \in MTokens : /\ active'[m] # None <=> active[m] # None
                               /\ active[m] # None => active'[m].who = active[m].who
        BY <3>1, <3>2, RecordUpdates, ConstantsAssumption DEF TypeInv, TypeOK
      <3>4. UNCHANGED pending
        BY <2>8 DEF CronSave
      <3>5. QED
        BY <3>3, <3>4, RecordRewritten
    <2>9. CASE CronWriteFails
      BY <2>9, Still DEF CronWriteFails
    <2>10. CASE CronEnd
      BY <2>10, Still DEF CronEnd
    <2>11. CASE CronKilled
      BY <2>11, Still DEF CronKilled
    <2>12. QED
      BY <1>6, <2>1, <2>2, <2>3, <2>4, <2>5, <2>6, <2>7, <2>8, <2>9, <2>10, <2>11 DEF CronStep
  <1>7. CASE Quiet /\ Expiry
    <2>1. ASSUME NEW t \in VTokens, PendingExpires(t) PROVE [Sub!Next]_(Sub!svars)
      <3>1. /\ pending[t] # None /\ pending' = [pending EXCEPT ![t] = None] /\ active' = active
            /\ \A s \in Reqs : pc[s] = "idle"
        BY <1>7, <2>1 DEF PendingExpires, Quiet
      <3>2. pending[t] \in Identities /\ \A u \in VTokens : pending[u] = pending[t] => u = t
        BY <3>1 DEF TypeInv, TypeOK, PendingInv
      <3>3. QED
        BY <3>1, <3>2, LinkDropped
    <2>2. ASSUME NEW i \in Identities, PendingIdxExpires(i) PROVE [Sub!Next]_(Sub!svars)
      BY <1>7, <2>2, Still DEF PendingIdxExpires
    <2>3. QED
      BY <1>7, <2>1, <2>2 DEF Expiry
  <1>8. ASSUME NEW old \in SUBSET MTokens, Quiet, DayPasses(old) PROVE [Sub!Next]_(Sub!svars)
    <2>1. ASSUME NEW m \in MTokens
          PROVE  /\ active'[m] # None <=> active[m] # None
                 /\ active[m] # None => active'[m].who = active[m].who
      BY <1>8, RecordUpdates, ConstantsAssumption DEF DayPasses, TypeInv, TypeOK
    <2>2. pending' = pending
      BY <1>8 DEF DayPasses
    <2>3. QED
      BY <2>1, <2>2, RecordRewritten
  <1>9. CASE UNCHANGED vars
    BY <1>9, Still DEF vars
  <1>10. QED
    BY <1>1, <1>2, <1>3, <1>4, <1>5, <1>6, <1>7, <1>8, <1>9
    DEF SerialNext, RequestStep, DayStep

\* When nothing overlaps the handlers keep the promise of Subscription: one link
\* or one subscription per identity, which starts only from a link on offer and
\* ends only by its subscriber (schedule.ts:150-540).
THEOREM Implements == SerialSpec => ImplementsSubscription
  <1>1. Init => LinkInv /\ PendingInv
    BY ConstantsAssumption
       DEF Init, LinkInv, PendingInv, VerifyPcs, SubscribePcs, UnsubPcs, Subscribing, PrePut
  <1>2. Init => Sub!Init
    BY ConstantsAssumption DEF Init, Sub!Init, Offered, Monitored
  <1>3. [SerialKillNext]_vars => [Next]_vars
    BY SerialIsNext
  <1>4. QED
    BY TypeInit, TypeStep, OwnerInit, OwnerStep, GoneInit, GoneStep, SerialInit, AloneStep,
       IndexStep, LinkStep, PendingStep, SubscriptionStep, UncutIsSerial, <1>1, <1>2, <1>3, PTL
    DEF SerialSpec, ImplementsSubscription, Sub!Spec
=============================================================================
