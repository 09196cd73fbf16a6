------------------------------ MODULE Monitor ------------------------------
(***************************************************************************)
(* Scheduled monitoring (worker/src/handlers/schedule.ts): the subscribe,  *)
(* verify and unsubscribe handlers and the daily cron run, over the KV     *)
(* namespace they share.                                                   *)
(*                                                                         *)
(* Every `await` is a point where another invocation may run, so each      *)
(* handler is a sequence of actions, one per KV call or network call; the  *)
(* computation between two awaits belongs to the action before it.  The    *)
(* program counter of a handler names the call it is about to make.        *)
(*                                                                         *)
(* An identity is an (email, host) pair: what computeBlindIndex hashes.    *)
(* Both tokens are random and never reused.  A request that an early       *)
(* return refuses (bad input, captcha, 404, a GET of the unsubscribe page) *)
(* leaves all of this state alone, so it is a stuttering step here.        *)
(***************************************************************************)
EXTENDS FiniteSets

CONSTANTS Identities,   \* (email, host) pairs
          External,     \* those whose host needs an ownership challenge file
          VTokens,      \* verification tokens available to the run
          MTokens,      \* manage tokens available to the run
          Reqs,         \* request invocations that may be in flight at once
          None

\* SubscriptionRecord, reduced to what the handlers branch on: own stands for
\* ownershipToken (made together with the verification token), base for the
\* presence of baselineFingerprint, recent for lastScannedAt < 23h ago, proof
\* for lastOwnershipVerifiedAt <= 30 days ago.
Record == [who : Identities, own : VTokens,
           base : BOOLEAN, recent : BOOLEAN, proof : BOOLEAN]

ASSUME ConstantsAssumption ==
  /\ External \subseteq Identities
  /\ None \notin Identities \cup VTokens \cup MTokens \cup Record

VARIABLES
  \* The KV namespace.
  pending,      \* pending:<token>     -> identity of the pending record
  pendingIdx,   \* pendingIdx:<blind>  -> verification token
  active,       \* active:<token>      -> subscription record
  blind,        \* blind:<blind>       -> manage token
  \* The locals of the request handlers.
  pc, who, vtok, mtok, found, base,
  \* The locals of the cron run.
  cronPc,
  keys,         \* keys listed and not read yet
  due,          \* due[m]: the copy of active:m the run holds
  cur,          \* key being processed
  \* What the outside world knows or did.
  issued,       \* issued[t]: identity the verification token was made for
  mailed,       \* verification tokens that reached a mailbox
  proved,       \* verification tokens whose challenge file has been fetched
  owner,        \* owner[m]: identity the manage token was made for
  known,        \* manage tokens that left the service (mail or response)
  cancelled,    \* manage tokens whose unsubscribe was answered "success"
  gone          \* records deleted while no cron run held a copy

kv     == <<pending, pendingIdx, active, blind>>
args   == <<who, vtok, mtok, found, base>>
locals == <<pc, args>>
cron   == <<cronPc, keys, due, cur>>
links  == <<issued, mailed, proved>>
tokens == <<owner, known, cancelled, gone>>
world  == <<links, tokens>>
vars   == <<kv, locals, cron, world>>

SubscribePcs == {"s_active", "s_idx", "s_drop", "s_put", "s_putidx", "s_mail",
                 "s_undo", "s_undoidx"}
VerifyPcs    == {"v_own", "v_scan", "v_drop", "v_blind", "v_idx", "v_active",
                 "v_pend", "v_mail"}
UnsubPcs     == {"u_blind", "u_idx", "u_active"}
CronPcs      == {"idle", "load", "next", "prove", "renew", "scan", "alert",
                 "save"}

Init ==
  /\ pending    = [t \in VTokens |-> None]
  /\ pendingIdx = [i \in Identities |-> None]
  /\ active     = [m \in MTokens |-> None]
  /\ blind      = [i \in Identities |-> None]
  /\ pc    = [r \in Reqs |-> "idle"]
  /\ who   = [r \in Reqs |-> None]
  /\ vtok  = [r \in Reqs |-> None]
  /\ mtok  = [r \in Reqs |-> None]
  /\ found = [r \in Reqs |-> None]
  /\ base  = [r \in Reqs |-> FALSE]
  /\ cronPc = "idle"
  /\ keys = {}
  /\ due = [m \in MTokens |-> None]
  /\ cur = None
  /\ issued = [t \in VTokens |-> None]
  /\ owner  = [m \in MTokens |-> None]
  /\ mailed = {} /\ proved = {} /\ known = {} /\ cancelled = {} /\ gone = {}

-----------------------------------------------------------------------------
(* Handler bookkeeping.                                                    *)

Goto(r, label) == pc' = [pc EXCEPT ![r] = label]

\* The call named by label from is made; the next one is named by label to.
Step(r, from, to) == pc[r] = from /\ Goto(r, to)

\* The invocation answers its request; its locals are gone.
Finish(r) ==
  /\ Goto(r, "idle")
  /\ who'   = [who EXCEPT ![r] = None]
  /\ vtok'  = [vtok EXCEPT ![r] = None]
  /\ mtok'  = [mtok EXCEPT ![r] = None]
  /\ found' = [found EXCEPT ![r] = None]
  /\ base'  = [base EXCEPT ![r] = FALSE]

\* KV.delete('active:m'); a copy in the hands of the cron run outlives it.
DeleteActive(m) ==
  /\ active' = [active EXCEPT ![m] = None]
  /\ gone' = IF active[m] # None /\ (cronPc = "idle" \/ due[m] = None)
               THEN gone \cup {m} ELSE gone

-----------------------------------------------------------------------------
(* handleScheduleSubscribe, from the first KV read of the subscription.    *)

\* get blind:<i>
SubscribeStart(r, i) ==
  /\ Step(r, "idle", IF blind[i] = None THEN "s_idx" ELSE "s_active")
  /\ who' = [who EXCEPT ![r] = i]
  /\ found' = [found EXCEPT ![r] = blind[i]]
  /\ UNCHANGED <<kv, vtok, mtok, base, cron, world>>

\* get active:<existing>; an identity already monitored gets the decoy answer.
SubscribeCheckActive(r) ==
  /\ pc[r] = "s_active"
  /\ IF active[found[r]] # None
       THEN Finish(r)
       ELSE Goto(r, "s_idx") /\ UNCHANGED args
  /\ UNCHANGED <<kv, cron, world>>

\* Mutant: the previous link is left alive.
SubscribeReadIdxKeepsOld(r) ==
  /\ Step(r, "s_idx", "s_put")
  /\ UNCHANGED <<kv, args, cron, world>>

\* get pendingIdx:<i>
SubscribeReadIdx(r) ==
  /\ Step(r, "s_idx", IF pendingIdx[who[r]] = None THEN "s_put" ELSE "s_drop")
  /\ vtok' = [vtok EXCEPT ![r] = pendingIdx[who[r]]]
  /\ UNCHANGED <<kv, who, mtok, found, base, cron, world>>

\* delete pending:<previous>
SubscribeDropPrevious(r) ==
  /\ Step(r, "s_drop", "s_put")
  /\ pending' = [pending EXCEPT ![vtok[r]] = None]
  /\ UNCHANGED <<pendingIdx, active, blind, args, cron, world>>

\* Mutant: tokens can repeat.
SubscribePutReused(r, t) ==
  /\ Step(r, "s_put", "s_putidx")
  /\ issued' = [issued EXCEPT ![t] = who[r]]
  /\ vtok' = [vtok EXCEPT ![r] = t]
  /\ pending' = [pending EXCEPT ![t] = who[r]]
  /\ UNCHANGED <<pendingIdx, active, blind, who, mtok, found, base, cron,
                 mailed, proved, tokens>>

\* generateSecureToken; put pending:<t>
SubscribePut(r, t) ==
  /\ Step(r, "s_put", "s_putidx")
  /\ issued[t] = None
  /\ issued' = [issued EXCEPT ![t] = who[r]]
  /\ vtok' = [vtok EXCEPT ![r] = t]
  /\ pending' = [pending EXCEPT ![t] = who[r]]
  /\ UNCHANGED <<pendingIdx, active, blind, who, mtok, found, base, cron,
                 mailed, proved, tokens>>

\* Mutant: the index stores the key instead of the token.
SubscribePutIdxKey(r) ==
  /\ Step(r, "s_putidx", "s_mail")
  /\ pendingIdx' = [pendingIdx EXCEPT ![who[r]] = who[r]]
  /\ UNCHANGED <<pending, active, blind, args, cron, world>>

\* put pendingIdx:<i>
SubscribePutIdx(r) ==
  /\ Step(r, "s_putidx", "s_mail")
  /\ pendingIdx' = [pendingIdx EXCEPT ![who[r]] = vtok[r]]
  /\ UNCHANGED <<pending, active, blind, args, cron, world>>

\* sendNotificationEmail.  A send that throws may still have been delivered.
SubscribeMail(r) ==
  /\ pc[r] = "s_mail"
  /\ \/ /\ mailed' = mailed \cup {vtok[r]}
        /\ Finish(r)
     \/ /\ mailed' \in {mailed, mailed \cup {vtok[r]}}
        /\ Goto(r, "s_undo")
        /\ UNCHANGED args
  /\ UNCHANGED <<kv, cron, issued, proved, tokens>>

\* The mail was not sent: delete pending:<t>, then pendingIdx:<i>.
SubscribeUndo(r) ==
  /\ Step(r, "s_undo", "s_undoidx")
  /\ pending' = [pending EXCEPT ![vtok[r]] = None]
  /\ UNCHANGED <<pendingIdx, active, blind, args, cron, world>>

SubscribeUndoIdx(r) ==
  /\ pc[r] = "s_undoidx"
  /\ pendingIdx' = [pendingIdx EXCEPT ![who[r]] = None]
  /\ Finish(r)
  /\ UNCHANGED <<pending, active, blind, cron, world>>

-----------------------------------------------------------------------------
(* handleScheduleVerify, for a link that reached a mailbox.  Links can be  *)
(* followed any number of times, also by two clients at once.              *)

\* Mutant: every host is taken to be the mailbox's own.
NeedsProofNever(i) == FALSE

NeedsProof(i) == i \in External

\* get pending:<t>; decrypt
VerifyStart(r, t) ==
  /\ Step(r, "idle", IF NeedsProof(pending[t]) THEN "v_own" ELSE "v_scan")
  /\ t \in mailed /\ pending[t] # None
  /\ who' = [who EXCEPT ![r] = pending[t]]
  /\ vtok' = [vtok EXCEPT ![r] = t]
  /\ UNCHANGED <<kv, mtok, found, base, cron, world>>

\* verifyHttpOwnership: the challenge file holds this link's token, or a 400.
VerifyOwnership(r) ==
  /\ pc[r] = "v_own"
  /\ \/ /\ proved' = proved \cup {vtok[r]}
        /\ Goto(r, "v_scan")
        /\ UNCHANGED args
     \/ Finish(r) /\ UNCHANGED proved
  /\ UNCHANGED <<kv, cron, issued, mailed, tokens>>

\* Mutant: an existing subscription is not looked up.
VerifyScanForgetsExisting(r, m, ok) ==
  /\ Step(r, "v_scan", "v_blind")
  /\ owner[m] = None
  /\ owner' = [owner EXCEPT ![m] = who[r]]
  /\ mtok' = [mtok EXCEPT ![r] = m]
  /\ base' = [base EXCEPT ![r] = ok]
  /\ UNCHANGED <<kv, who, vtok, found, cron, links, known, cancelled, gone>>

\* The baseline scan (a failed one leaves the baseline undefined), a fresh
\* manage token, then get blind:<i>.  Only the read touches shared state.
VerifyScan(r, m, ok) ==
  /\ Step(r, "v_scan", IF blind[who[r]] = None THEN "v_blind" ELSE "v_drop")
  /\ owner[m] = None
  /\ owner' = [owner EXCEPT ![m] = who[r]]
  /\ mtok' = [mtok EXCEPT ![r] = m]
  /\ base' = [base EXCEPT ![r] = ok]
  /\ found' = [found EXCEPT ![r] = blind[who[r]]]
  /\ UNCHANGED <<kv, who, vtok, cron, links, known, cancelled, gone>>

\* delete active:<existing>
VerifyDropExisting(r) ==
  /\ Step(r, "v_drop", "v_blind")
  /\ DeleteActive(found[r])
  /\ UNCHANGED <<pending, pendingIdx, blind, args, cron, links, owner,
                 known, cancelled>>

\* put blind:<i>
VerifyPutBlind(r) ==
  /\ Step(r, "v_blind", "v_idx")
  /\ blind' = [blind EXCEPT ![who[r]] = mtok[r]]
  /\ UNCHANGED <<pending, pendingIdx, active, args, cron, world>>

\* Mutant: the link is deleted together with its index, before the record exists.
VerifyDropIdxAndLink(r) ==
  /\ Step(r, "v_idx", "v_active")
  /\ pendingIdx' = [pendingIdx EXCEPT ![who[r]] = None]
  /\ pending' = [pending EXCEPT ![vtok[r]] = None]
  /\ UNCHANGED <<active, blind, args, cron, world>>

\* Mutant: the wrong index entry is deleted.
VerifyDropIdxBlind(r) ==
  /\ Step(r, "v_idx", "v_active")
  /\ blind' = [blind EXCEPT ![who[r]] = None]
  /\ UNCHANGED <<pending, pendingIdx, active, args, cron, world>>

\* delete pendingIdx:<i>
VerifyDropIdx(r) ==
  /\ Step(r, "v_idx", "v_active")
  /\ pendingIdx' = [pendingIdx EXCEPT ![who[r]] = None]
  /\ UNCHANGED <<pending, active, blind, args, cron, world>>

\* put active:<m>
VerifyPutActive(r) ==
  /\ Step(r, "v_active", "v_pend")
  /\ active' = [active EXCEPT ![mtok[r]] =
                  [who |-> who[r], own |-> vtok[r], base |-> base[r],
                   recent |-> TRUE, proof |-> TRUE]]
  /\ UNCHANGED <<pending, pendingIdx, blind, args, cron, world>>

\* delete pending:<t>
VerifyDropPending(r) ==
  /\ Step(r, "v_pend", "v_mail")
  /\ pending' = [pending EXCEPT ![vtok[r]] = None]
  /\ UNCHANGED <<pendingIdx, active, blind, args, cron, world>>

\* The welcome mail (its failure is ignored) and the response, which carries
\* the manage token only in its JSON form.
VerifyMail(r) ==
  /\ pc[r] = "v_mail"
  /\ known' \in {known, known \cup {mtok[r]}}
  /\ Finish(r)
  /\ UNCHANGED <<kv, cron, links, owner, cancelled, gone>>

-----------------------------------------------------------------------------
(* handleScheduleUnsubscribe (POST), for a manage token that is out.       *)

\* get active:<m> finds nothing: answered as a success all the same.
UnsubscribeAbsent(r, m) ==
  /\ pc[r] = "idle"
  /\ m \in known /\ active[m] = None
  /\ cancelled' = cancelled \cup {m}
  /\ UNCHANGED <<kv, locals, cron, links, owner, known, gone>>

\* get active:<m>; decrypt
UnsubscribeStart(r, m) ==
  /\ Step(r, "idle", "u_blind")
  /\ m \in known /\ active[m] # None
  /\ who' = [who EXCEPT ![r] = active[m].who]
  /\ mtok' = [mtok EXCEPT ![r] = m]
  /\ UNCHANGED <<kv, vtok, found, base, cron, world>>

\* delete blind:<i>
UnsubscribeDropBlind(r) ==
  /\ Step(r, "u_blind", "u_idx")
  /\ blind' = [blind EXCEPT ![who[r]] = None]
  /\ UNCHANGED <<pending, pendingIdx, active, args, cron, world>>

\* delete pendingIdx:<i>
UnsubscribeDropIdx(r) ==
  /\ Step(r, "u_idx", "u_active")
  /\ pendingIdx' = [pendingIdx EXCEPT ![who[r]] = None]
  /\ UNCHANGED <<pending, active, blind, args, cron, world>>

\* delete active:<m>; answer
UnsubscribeDropActive(r) ==
  /\ pc[r] = "u_active"
  /\ DeleteActive(mtok[r])
  /\ cancelled' = cancelled \cup {mtok[r]}
  /\ Finish(r)
  /\ UNCHANGED <<pending, pendingIdx, blind, cron, links, owner, known>>

-----------------------------------------------------------------------------
(* handleScheduledCron.  The order of the candidates, the cap of 25 and    *)
(* the wall-clock deadline are CronQueue's subject: here the run takes the *)
(* due subscriptions in any order and may stop before any of them.         *)

CronGoto(label) == cronPc' = label

\* Leave the candidate in hand and go on to the next one.
CronSkip ==
  /\ CronGoto("next")
  /\ due' = [due EXCEPT ![cur] = None]
  /\ cur' = None

\* list({prefix: 'active:'}), all pages
CronList ==
  /\ cronPc = "idle"
  /\ keys' = {m \in MTokens : active[m] # None}
  /\ CronGoto("load")
  /\ UNCHANGED <<kv, locals, due, cur, world>>

\* Mutant: the 23 h guard is dropped.
IsDueAlways(rec) == rec # None

\* Whether a record read by the run becomes a candidate.
IsDue(rec) == rec # None /\ ~rec.recent

\* get <key>; decrypt; skip unless due
CronLoad(m) ==
  /\ cronPc = "load"
  /\ m \in keys
  /\ keys' = keys \ {m}
  /\ due' = [due EXCEPT ![m] = IF IsDue(active[m]) THEN active[m] ELSE None]
  /\ UNCHANGED <<kv, locals, cronPc, cur, world>>

CronLoaded ==
  /\ cronPc = "load"
  /\ keys = {}
  /\ CronGoto("next")
  /\ UNCHANGED <<kv, locals, keys, due, cur, world>>

\* The stored proof must be renewed before the host is scanned again.
ProofExpired(rec) == NeedsProof(rec.who) /\ ~rec.proof

\* The target is revalidated; a stale ownership proof is checked again first.
CronTake(m) ==
  /\ cronPc = "next"
  /\ due[m] # None
  /\ \/ /\ cur' = m
        /\ CronGoto(IF ProofExpired(due[m]) THEN "prove" ELSE "scan")
        /\ UNCHANGED due
     \/ \* The stored target is no longer an allowed scan target.
        /\ due' = [due EXCEPT ![m] = None]
        /\ UNCHANGED <<cronPc, cur>>
  /\ UNCHANGED <<kv, locals, keys, world>>

\* The record with lastOwnershipVerifiedAt = now.
Renewed(rec) == [rec EXCEPT !.proof = TRUE]

\* Mutant: the renewed proof is only stored with the scan result.
CronProveNotStored ==
  /\ cronPc = "prove"
  /\ \/ /\ due' = [due EXCEPT ![cur] = Renewed(@)]
        /\ proved' = proved \cup {due[cur].own}
        /\ CronGoto("scan")
        /\ UNCHANGED cur
     \/ CronSkip /\ UNCHANGED proved
  /\ UNCHANGED <<kv, locals, keys, issued, mailed, tokens>>

\* verifyHttpOwnership
CronProve ==
  /\ cronPc = "prove"
  /\ \/ /\ due' = [due EXCEPT ![cur] = Renewed(@)]
        /\ proved' = proved \cup {due[cur].own}
        /\ CronGoto("renew")
        /\ UNCHANGED cur
     \/ CronSkip /\ UNCHANGED proved
  /\ UNCHANGED <<kv, locals, keys, issued, mailed, tokens>>

\* put <key> with the renewed proof, before the scan
CronRenew ==
  /\ cronPc = "renew"
  /\ active' = [active EXCEPT ![cur] = due[cur]]
  /\ CronGoto("scan")
  /\ UNCHANGED <<pending, pendingIdx, blind, locals, keys, due, cur, world>>

\* A failed scan skips the candidate; only a record with a baseline can alert.
CronScan ==
  /\ cronPc = "scan"
  /\ \/ CronSkip
     \/ CronGoto("save") /\ UNCHANGED <<due, cur>>
     \/ due[cur].base /\ CronGoto("alert") /\ UNCHANGED <<due, cur>>
  /\ UNCHANGED <<kv, locals, keys, world>>

\* The alert mail; its failure is ignored.
CronAlert ==
  /\ cronPc = "alert"
  /\ known' \in {known, known \cup {cur}}
  /\ CronGoto("save")
  /\ UNCHANGED <<kv, locals, keys, due, cur, links, owner, cancelled, gone>>

\* The record with its new baseline and lastScannedAt.
Scanned(rec) == [rec EXCEPT !.base = TRUE, !.recent = TRUE]

\* put <key> after the scan
CronSave ==
  /\ cronPc = "save"
  /\ active' = [active EXCEPT ![cur] = Scanned(due[cur])]
  /\ CronSkip
  /\ UNCHANGED <<pending, pendingIdx, blind, locals, keys, world>>

\* A KV write throws; the catch of the loop goes on to the next candidate.
CronWriteFails ==
  /\ cronPc \in {"renew", "save"}
  /\ CronSkip
  /\ UNCHANGED <<kv, locals, keys, world>>

\* Mutant: the candidates of a run outlive it.
CronStopKeepsCandidates ==
  /\ CronGoto("idle")
  /\ keys' = {} /\ cur' = None
  /\ UNCHANGED due
  /\ UNCHANGED <<kv, locals, world>>

CronStop ==
  /\ CronGoto("idle")
  /\ keys' = {} /\ cur' = None
  /\ due' = [m \in MTokens |-> None]
  /\ UNCHANGED <<kv, locals, world>>

\* The run returns: no candidate left, the cap of 25, or the deadline.
CronEnd == cronPc = "next" /\ CronStop

\* The run is cut off by the platform, or a list() throws.
CronKilled == cronPc \notin {"idle", "next"} /\ CronStop

-----------------------------------------------------------------------------
(* The platform and time.                                                  *)

\* An invocation is killed, or a KV call throws out of the handler.
Killed(r) ==
  /\ pc[r] # "idle"
  /\ Finish(r)
  /\ UNCHANGED <<kv, cron, world>>

\* No handler that wrote the token is still running: 24 h outlive any request.
Settled(t) == \A r \in Reqs : pc[r] \in SubscribePcs => vtok[r] # t

\* The 24 h TTL of pending:<t>.
PendingExpires(t) ==
  /\ pending[t] # None /\ Settled(t)
  /\ pending' = [pending EXCEPT ![t] = None]
  /\ UNCHANGED <<pendingIdx, active, blind, locals, cron, world>>

\* The TTL of pendingIdx:<i>, written after the pending record it names.
PendingIdxExpires(i) ==
  /\ pendingIdx[i] # None
  /\ Settled(pendingIdx[i]) /\ pending[pendingIdx[i]] = None
  /\ pendingIdx' = [pendingIdx EXCEPT ![i] = None]
  /\ UNCHANGED <<pending, active, blind, locals, cron, world>>

\* What a day does to a record, and to one whose proof turns 30 days old.
Aged(rec) == [rec EXCEPT !.recent = FALSE]
Lapsed(rec) == [rec EXCEPT !.recent = FALSE, !.proof = FALSE]

\* A day passes between two runs: every record is due again, and proofs older
\* than 30 days need renewing.
DayPasses(old) ==
  /\ cronPc = "idle"
  /\ active' = [m \in MTokens |->
       CASE active[m] = None -> None
         [] active[m] # None /\ m \in old -> Lapsed(active[m])
         [] active[m] # None /\ m \notin old -> Aged(active[m])]
  /\ UNCHANGED <<pending, pendingIdx, blind, locals, cron, world>>

-----------------------------------------------------------------------------
(* The specifications.                                                     *)

RequestStart(r) ==
  \/ \E i \in Identities : SubscribeStart(r, i)
  \/ \E t \in VTokens : VerifyStart(r, t)
  \/ \E m \in MTokens : UnsubscribeAbsent(r, m) \/ UnsubscribeStart(r, m)

SubscribeStep(r) ==
  \/ SubscribeCheckActive(r) \/ SubscribeReadIdx(r) \/ SubscribeDropPrevious(r)
  \/ \E t \in VTokens : SubscribePut(r, t)
  \/ SubscribePutIdx(r) \/ SubscribeMail(r)
  \/ SubscribeUndo(r) \/ SubscribeUndoIdx(r)

VerifyStep(r) ==
  \/ VerifyOwnership(r)
  \/ \E m \in MTokens, ok \in BOOLEAN : VerifyScan(r, m, ok)
  \/ VerifyDropExisting(r) \/ VerifyPutBlind(r) \/ VerifyDropIdx(r)
  \/ VerifyPutActive(r) \/ VerifyDropPending(r) \/ VerifyMail(r)

UnsubscribeStep(r) ==
  UnsubscribeDropBlind(r) \/ UnsubscribeDropIdx(r) \/ UnsubscribeDropActive(r)

RequestStep(r) == SubscribeStep(r) \/ VerifyStep(r) \/ UnsubscribeStep(r)

CronStep ==
  \/ \E m \in MTokens : CronLoad(m) \/ CronTake(m)
  \/ CronLoaded \/ CronProve \/ CronRenew \/ CronScan \/ CronAlert
  \/ CronSave \/ CronWriteFails \/ CronEnd \/ CronKilled

Expiry ==
  \/ \E t \in VTokens : PendingExpires(t)
  \/ \E i \in Identities : PendingIdxExpires(i)

DayStep == \E old \in SUBSET MTokens : DayPasses(old)

\* Anything may overlap with anything, and anything may be killed.
Next ==
  \/ \E r \in Reqs : RequestStart(r) \/ RequestStep(r) \/ Killed(r)
  \/ CronList \/ CronStep
  \/ Expiry \/ DayStep

Spec == Init /\ [][Next]_vars

Quiet == cronPc = "idle" /\ \A r \in Reqs : pc[r] = "idle"

\* Nothing overlaps: a request, a run, an expiry starts when all is quiet.
SerialNext ==
  \/ Quiet /\ \/ \E r \in Reqs : RequestStart(r)
              \/ CronList \/ Expiry \/ DayStep
  \/ \E r \in Reqs : RequestStep(r)
  \/ CronStep

SerialSpec == Init /\ [][SerialNext]_vars

\* Nothing overlaps, but a subscribe or a verify may be cut off anywhere.
SerialKillNext ==
  \/ SerialNext
  \/ \E r \in Reqs : pc[r] \notin UnsubPcs /\ Killed(r)

SerialKillSpec == Init /\ [][SerialKillNext]_vars

-----------------------------------------------------------------------------
(* Properties.                                                             *)

TypeOK ==
  /\ pending    \in [VTokens -> Identities \cup {None}]
  /\ pendingIdx \in [Identities -> VTokens \cup {None}]
  /\ active     \in [MTokens -> Record \cup {None}]
  /\ blind      \in [Identities -> MTokens \cup {None}]
  /\ pc    \in [Reqs -> {"idle"} \cup SubscribePcs \cup VerifyPcs \cup UnsubPcs]
  /\ who   \in [Reqs -> Identities \cup {None}]
  /\ vtok  \in [Reqs -> VTokens \cup {None}]
  /\ mtok  \in [Reqs -> MTokens \cup {None}]
  /\ found \in [Reqs -> MTokens \cup {None}]
  /\ base  \in [Reqs -> BOOLEAN]
  /\ cronPc \in CronPcs
  /\ keys \subseteq MTokens
  /\ due \in [MTokens -> Record \cup {None}]
  /\ cur \in MTokens \cup {None}
  /\ issued \in [VTokens -> Identities \cup {None}]
  /\ owner  \in [MTokens -> Identities \cup {None}]
  /\ mailed \subseteq VTokens /\ proved \subseteq VTokens
  /\ known \subseteq MTokens /\ cancelled \subseteq MTokens
  /\ gone \subseteq MTokens

\* No two identities ever share a token: every key, whichever handlers raced
\* to write it, still belongs to the identity its token was generated for.
\* (blindIndex keys of schedule.ts:176, 395, 508.)
TokensKeepTheirOwner ==
  /\ \A t \in VTokens : pending[t] # None => pending[t] = issued[t]
  /\ \A i \in Identities : pendingIdx[i] # None => issued[pendingIdx[i]] = i
  /\ \A m \in MTokens : active[m] # None => active[m].who = owner[m]
  /\ \A i \in Identities : blind[i] # None => owner[blind[i]] = i

\* A record is authorised when its own link reached the mailbox and, for an
\* external host, its own challenge file was fetched.
Authorised(rec) ==
  /\ rec.own \in mailed
  /\ issued[rec.own] = rec.who
  /\ rec.who \in External => rec.own \in proved

\* Whatever interleaves or is killed, nothing is monitored, and the cron run
\* holds no copy of anything, that its mailbox and its host did not authorise.
OnlyAuthorisedMonitored ==
  \A m \in MTokens :
    /\ active[m] # None => Authorised(active[m])
    /\ due[m] # None => Authorised(due[m])

\* Deleting a record is final unless the cron run in progress already holds a
\* copy of it: no later run, request or retry brings it back.
GoneStaysGone == \A m \in gone : active[m] = None

\* The proof that lets a run scan an external host is stored before the scan,
\* so a scan that fails does not cost a new fetch on every later run
\* (schedule.ts:635-639).
RenewedProofIsStored ==
  cronPc \in {"scan", "alert", "save"} =>
    /\ ~ProofExpired(due[cur])
    /\ active[cur] # None => ~ProofExpired(active[cur])

\* A record is scanned by a run only while nothing newer than 23h is stored
\* for it (schedule.ts:583-586).  Two runs that overlap, which the model does
\* not have, could still scan a record twice.
NoSecondScanInADay ==
  cronPc \in {"scan", "alert", "save"} =>
    (active[cur] # None => ~active[cur].recent)

\* At most one monitored record per identity (test "subscribe x2 -> verify x2
\* leaves exactly 1 active record in KV without orphans").
OneActivePerIdentity ==
  \A m, n \in MTokens :
    (active[m] # None /\ active[n] # None /\ active[m].who = active[n].who)
      => m = n

\* The blind index finds every monitored record, but for the record whose own
\* unsubscribe is past its first delete.
ActiveIsIndexed ==
  \A m \in MTokens :
    active[m] # None =>
      \/ blind[active[m].who] = m
      \/ \E r \in Reqs : pc[r] \in {"u_idx", "u_active"} /\ mtok[r] = m

\* Until a verify has stored its record its link still works, so a verify that
\* is cut off after deleting the previous record can be retried
\* (schedule.ts:396-404: the pending record is deleted last).
LinkWorksUntilStored ==
  \A r \in Reqs :
    pc[r] \in VerifyPcs \ {"v_mail"} => pending[vtok[r]] # None

\* At most one link works per identity (schedule.ts:205: "Invalidate previous
\* pending token if one was already issued for this (email, host)").
OneLivePending ==
  \A t, u \in VTokens :
    (pending[t] # None /\ pending[t] = pending[u]) => t = u

\* "Security monitoring alerts will no longer be sent" (schedule.ts:531): a
\* record whose unsubscribe was answered does not come back.
CancelledStaysCancelled == \A m \in cancelled : active[m] = None

\* What a subscriber can tell: the links of i that work, and what is monitored
\* for i.
Offered == [i \in Identities |-> {t \in VTokens : pending[t] = i}]
Monitored == [i \in Identities |-> {m \in MTokens : active[m] # None /\ active[m].who = i}]

\* The promise this implements.
Sub == INSTANCE Subscription WITH offers <- Offered, subs <- Monitored

ImplementsSubscription == Sub!Spec
=============================================================================
