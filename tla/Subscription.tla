---------------------------- MODULE Subscription ----------------------------
(***************************************************************************)
(* What the scheduled-monitoring service promises each (email, host)       *)
(* identity, with no storage keys and no handlers: at most one             *)
(* confirmation link is on offer, at most one subscription is monitored,   *)
(* the two never coexist except for the moment a link is being consumed,   *)
(* and a subscription starts only while a link for it is on offer.         *)
(*                                                                         *)
(* Monitor implements this specification when requests do not overlap      *)
(* (see SerialSpec there).                                                 *)
(***************************************************************************)
EXTENDS Naturals

CONSTANTS Identities,   \* (email, host) pairs
          VTokens,      \* verification tokens, one per confirmation link
          MTokens       \* manage tokens, one per subscription

VARIABLES offers,       \* offers[i]: the links of i that still work
          subs          \* subs[i]: the subscriptions of i that are monitored

svars == <<offers, subs>>

Init ==
  /\ offers = [i \in Identities |-> {}]
  /\ subs   = [i \in Identities |-> {}]

\* A link is mailed: only to an identity that has neither link nor subscription.
Offer(i, t) ==
  /\ offers[i] = {} /\ subs[i] = {}
  /\ \A j \in Identities : t \notin offers[j]
  /\ offers' = [offers EXCEPT ![i] = {t}]
  /\ UNCHANGED subs

\* A link stops working: replaced, expired, undeliverable or consumed.
Withdraw(i) ==
  /\ offers[i] # {}
  /\ offers' = [offers EXCEPT ![i] = {}]
  /\ UNCHANGED subs

\* The link is followed: monitoring starts under a fresh manage token.
Activate(i, m) ==
  /\ offers[i] # {} /\ subs[i] = {}
  /\ \A j \in Identities : m \notin subs[j]
  /\ subs' = [subs EXCEPT ![i] = {m}]
  /\ UNCHANGED offers

\* The subscriber cancels.
Cancel(i) ==
  /\ subs[i] # {}
  /\ subs' = [subs EXCEPT ![i] = {}]
  /\ UNCHANGED offers

Next ==
  \E i \in Identities :
    \/ \E t \in VTokens : Offer(i, t)
    \/ Withdraw(i)
    \/ \E m \in MTokens : Activate(i, m)
    \/ Cancel(i)

Spec == Init /\ [][Next]_svars
=============================================================================
