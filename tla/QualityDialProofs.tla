-------------------------- MODULE QualityDialProofs ---------------------------
(***************************************************************************)
(* What the end of a dial with fallback means, for any number of calls on  *)
(* one client, any number of orders, and any policy.                       *)
(***************************************************************************)
EXTENDS QualityDial, TLAPS

Types ==
    /\ policy \in [latency : Nat, errors : Nat] /\ lastDialLatency \in Nat
    /\ pc \in [Calls -> {"idle", "connect", "dialling", "erring", "judge", "again", "ok", "failed"}]
    /\ phase \in [Calls -> {"plain", "first", "fallback"}]
    /\ entry \in [Calls -> {"tcp", "fallback", "auto"}]
    /\ attempt \in [Calls -> Nat] /\ dials \in [Calls -> Nat] /\ mine \in [Calls -> Nat]
    /\ rotation \in Nat /\ loaded \in [Calls -> Nat] /\ errorCount \in Nat
    /\ used \in [Calls -> SUBSET (Nat \X Nat)]
    /\ mixed \in [Calls -> BOOLEAN] /\ shared \in [Calls -> BOOLEAN]

(* A call has a stream open exactly when its last dial succeeded and it    *)
(* has not discarded the stream.                                           *)
Owns(c) ==
    {s \in streams : s[1] = c} = IF pc[c] \in {"judge", "ok"} THEN {<<c, dials[c]>>} ELSE {}

(* What was judged, or is about to be.                                     *)
Judged(c) ==
    /\ pc[c] = "judge" /\ ~mixed[c] => lastDialLatency = mine[c]
    /\ pc[c] = "judge" => phase[c] # "plain"
    /\ pc[c] = "ok" /\ phase[c] # "plain" /\ policy.latency > 0 /\ ~mixed[c] =>
          mine[c] <= policy.latency

(* How many dials an attempt of the loop stands for.                       *)
Counted(c) ==
    /\ pc[c] = "idle" => dials[c] = 0 /\ attempt[c] = 0 /\ used[c] = {}
    /\ attempt[c] < Orders /\ (phase[c] # "fallback" => attempt[c] = 0)
    /\ pc[c] # "idle" /\ phase[c] = "fallback" =>
          /\ dials[c] >= attempt[c] + 1
          /\ entry[c] = "fallback" => dials[c] = attempt[c] + 1
    /\ pc[c] # "idle" /\ phase[c] = "first" => entry[c] = "auto"
    /\ pc[c] = "again" => phase[c] = "fallback"
    /\ pc[c] = "failed" /\ phase[c] = "fallback" => attempt[c] + 1 >= Orders

(* While a call has the client to itself the manager is the one it put     *)
(* there.                                                                  *)
Alone(c) ==
    ~shared[c] /\ ~Over(c) =>
        /\ \A d \in Calls \ {c} : Over(d)
        /\ attempt[c] > 0 => rotation = attempt[c]

Offers(c) == ~shared[c] => \A u \in used[c] : u[1] = 0 \/ u[2] = u[1]

QInv ==
    /\ Types
    /\ \A c \in Calls : Owns(c) /\ Judged(c) /\ Counted(c) /\ Alone(c) /\ Offers(c)

LEMMA InitQInv == Init => QInv
<1> SUFFICES ASSUME Init PROVE QInv  OBVIOUS
<1>1. Types
  BY QualityAssumptions DEF Init, Types
<1>2. ASSUME NEW c \in Calls PROVE Owns(c)
  BY DEF Init, Owns
<1>3. ASSUME NEW c \in Calls PROVE Judged(c) /\ Counted(c) /\ Alone(c) /\ Offers(c)
  BY QualityAssumptions DEF Init, Judged, Counted, Alone, Offers, Over
<1> QED
  BY <1>1, <1>2, <1>3 DEF QInv

LEMMA StepTypes == Types /\ [Next]_vars => Types'
<1> SUFFICES ASSUME Types, [Next]_vars PROVE Types'  OBVIOUS
<1> USE QualityAssumptions DEF Types
<1>1. ASSUME NEW c \in Calls, Begin(c) PROVE Types'
  BY <1>1 DEF Begin, Dial, client, history
<1>2. ASSUME NEW c \in Calls, Negotiate(c) PROVE Types'
  BY <1>2 DEF Negotiate, client, history
<1>3. ASSUME NEW c \in Calls, DialOk(c) PROVE Types'
  BY <1>3 DEF DialOk, client, history
<1>4. ASSUME NEW c \in Calls, DialFails(c) PROVE Types'
  BY <1>4 DEF DialFails, client, history
<1>5. ASSUME NEW c \in Calls, CountError(c) PROVE Types'
  BY <1>5 DEF CountError, Dial, client, history
<1>6. ASSUME NEW c \in Calls, Keep(c) \/ GiveUp(c) PROVE Types'
  BY <1>6 DEF Keep, GiveUp, client, history
<1>7. ASSUME NEW c \in Calls, Discard(c) PROVE Types'
  BY <1>7 DEF Discard, Dial, client, history
<1>8. ASSUME NEW c \in Calls, Rotate(c) PROVE Types'
  BY <1>8 DEF Rotate, Dial, client, history
<1>9. ASSUME UNCHANGED vars PROVE Types'
  BY <1>9 DEF vars, client, history
<1> QED
  BY <1>1, <1>2, <1>3, <1>4, <1>5, <1>6, <1>7, <1>8, <1>9 DEF Next

LEMMA StepOwns == QInv /\ [Next]_vars => \A d \in Calls : Owns(d)'
<1> SUFFICES ASSUME QInv, [Next]_vars, NEW d \in Calls PROVE Owns(d)'
  OBVIOUS
<1> USE QualityAssumptions DEF QInv, Types, Owns
<1>1. ASSUME NEW c \in Calls, Begin(c) PROVE Owns(d)'
  BY <1>1 DEF Begin, Dial, client, history
<1>2. ASSUME NEW c \in Calls, Negotiate(c) PROVE Owns(d)'
  BY <1>2 DEF Negotiate, client, history
<1>3. ASSUME NEW c \in Calls, DialOk(c) PROVE Owns(d)'
  BY <1>3 DEF DialOk, client, history
<1>4. ASSUME NEW c \in Calls, DialFails(c) PROVE Owns(d)'
  BY <1>4 DEF DialFails, client, history
<1>5. ASSUME NEW c \in Calls, CountError(c) PROVE Owns(d)'
  BY <1>5 DEF CountError, Dial, client, history
<1>6. ASSUME NEW c \in Calls, Keep(c) PROVE Owns(d)'
  BY <1>6 DEF Keep, client, history
<1>7. ASSUME NEW c \in Calls, GiveUp(c) PROVE Owns(d)'
  BY <1>7 DEF GiveUp, client, history
<1>8. ASSUME NEW c \in Calls, Discard(c) PROVE Owns(d)'
  BY <1>8 DEF Discard, Dial, client, history
<1>9. ASSUME NEW c \in Calls, Rotate(c) PROVE Owns(d)'
  BY <1>9 DEF Rotate, Dial, client, history
<1>10. ASSUME UNCHANGED vars PROVE Owns(d)'
  BY <1>10 DEF vars, client, history
<1> QED
  BY <1>1, <1>2, <1>3, <1>4, <1>5, <1>6, <1>7, <1>8, <1>9, <1>10 DEF Next

LEMMA StepJudged == QInv /\ [Next]_vars => \A d \in Calls : Judged(d)'
<1> SUFFICES ASSUME QInv, [Next]_vars, NEW d \in Calls PROVE Judged(d)'
  OBVIOUS
<1> USE QualityAssumptions DEF QInv, Types, Judged
<1>1. ASSUME NEW c \in Calls, Begin(c) PROVE Judged(d)'
  BY <1>1 DEF Begin, Dial, client, history
<1>2. ASSUME NEW c \in Calls, Negotiate(c) PROVE Judged(d)'
  BY <1>2 DEF Negotiate, client, history
<1>3. ASSUME NEW c \in Calls, DialOk(c) PROVE Judged(d)'
  BY <1>3 DEF DialOk, client, history
<1>4. ASSUME NEW c \in Calls, DialFails(c) PROVE Judged(d)'
  BY <1>4 DEF DialFails, client, history
<1>5. ASSUME NEW c \in Calls, CountError(c) PROVE Judged(d)'
  BY <1>5 DEF CountError, Dial, client, history
<1>6. ASSUME NEW c \in Calls, Keep(c) PROVE Judged(d)'
  BY <1>6 DEF Keep, FastEnough, client, history
<1>7. ASSUME NEW c \in Calls, GiveUp(c) PROVE Judged(d)'
  BY <1>7 DEF GiveUp, client, history
<1>8. ASSUME NEW c \in Calls, Discard(c) PROVE Judged(d)'
  BY <1>8 DEF Discard, Dial, client, history
<1>9. ASSUME NEW c \in Calls, Rotate(c) PROVE Judged(d)'
  BY <1>9 DEF Rotate, Dial, client, history
<1>10. ASSUME UNCHANGED vars PROVE Judged(d)'
  BY <1>10 DEF vars, client, history
<1> QED
  BY <1>1, <1>2, <1>3, <1>4, <1>5, <1>6, <1>7, <1>8, <1>9, <1>10 DEF Next

LEMMA StepCounted == QInv /\ [Next]_vars => \A d \in Calls : Counted(d)'
<1> SUFFICES ASSUME QInv, [Next]_vars, NEW d \in Calls PROVE Counted(d)'
  OBVIOUS
<1> USE QualityAssumptions DEF QInv, Types, Counted
<1>1. ASSUME NEW c \in Calls, Begin(c) PROVE Counted(d)'
  BY <1>1 DEF Begin, Dial, client, history
<1>2. ASSUME NEW c \in Calls, Negotiate(c) PROVE Counted(d)'
  BY <1>2 DEF Negotiate, client, history
<1>3. ASSUME NEW c \in Calls, DialOk(c) PROVE Counted(d)'
  BY <1>3 DEF DialOk, client, history
<1>4. ASSUME NEW c \in Calls, DialFails(c) PROVE Counted(d)'
  BY <1>4 DEF DialFails, client, history
<1>5. ASSUME NEW c \in Calls, CountError(c) PROVE Counted(d)'
  BY <1>5 DEF CountError, Dial, client, history
<1>6. ASSUME NEW c \in Calls, Keep(c) PROVE Counted(d)'
  BY <1>6 DEF Keep, client, history
<1>7. ASSUME NEW c \in Calls, GiveUp(c) PROVE Counted(d)'
  BY <1>7 DEF GiveUp, client, history
<1>8. ASSUME NEW c \in Calls, Discard(c) PROVE Counted(d)'
  BY <1>8 DEF Discard, Dial, client, history
<1>9. ASSUME NEW c \in Calls, Rotate(c) PROVE Counted(d)'
  BY <1>9 DEF Rotate, Dial, client, history
<1>10. ASSUME UNCHANGED vars PROVE Counted(d)'
  BY <1>10 DEF vars, client, history
<1> QED
  BY <1>1, <1>2, <1>3, <1>4, <1>5, <1>6, <1>7, <1>8, <1>9, <1>10 DEF Next

LEMMA StepAlone == QInv /\ [Next]_vars => \A d \in Calls : Alone(d)'
<1> SUFFICES ASSUME QInv, [Next]_vars, NEW d \in Calls PROVE Alone(d)'
  OBVIOUS
<1> USE QualityAssumptions DEF QInv, Types, Alone, Counted, Over
<1>1. ASSUME NEW c \in Calls, Begin(c) PROVE Alone(d)'
  <2>1. CASE d = c
    <3>1. pc[c] = "idle" /\ attempt' = attempt /\ attempt[c] = 0
      BY <1>1 DEF Begin, Dial
    <3>2. ~shared'[c] => \A x \in Calls \ {c} : Over(x) /\ pc'[x] = pc[x]
      BY <1>1 DEF Begin, Dial
    <3> QED
      BY <2>1, <3>1, <3>2
  <2>2. CASE d # c
    <3>1. pc'[d] = pc[d] /\ (~shared'[d] => Over(d))
      BY <1>1, <2>2 DEF Begin, Dial
    <3> QED
      BY <3>1
  <2> QED
    BY <2>1, <2>2
<1>2. ASSUME NEW c \in Calls, Negotiate(c) PROVE Alone(d)'
  BY <1>2 DEF Negotiate, client, history
<1>3. ASSUME NEW c \in Calls, DialOk(c) PROVE Alone(d)'
  BY <1>3 DEF DialOk, client, history
<1>4. ASSUME NEW c \in Calls, DialFails(c) PROVE Alone(d)'
  BY <1>4 DEF DialFails, client, history
<1>5. ASSUME NEW c \in Calls, CountError(c) PROVE Alone(d)'
  BY <1>5 DEF CountError, Dial, client, history
<1>6. ASSUME NEW c \in Calls, Keep(c) PROVE Alone(d)'
  BY <1>6 DEF Keep, client, history
<1>7. ASSUME NEW c \in Calls, GiveUp(c) PROVE Alone(d)'
  BY <1>7 DEF GiveUp, client, history
<1>8. ASSUME NEW c \in Calls, Discard(c) PROVE Alone(d)'
  BY <1>8 DEF Discard, Dial, client, history
<1>9. ASSUME NEW c \in Calls, Rotate(c) PROVE Alone(d)'
  BY <1>9 DEF Rotate, Dial, client, history
<1>10. ASSUME UNCHANGED vars PROVE Alone(d)'
  BY <1>10 DEF vars, client, history
<1> QED
  BY <1>1, <1>2, <1>3, <1>4, <1>5, <1>6, <1>7, <1>8, <1>9, <1>10 DEF Next

LEMMA StepOffers == QInv /\ [Next]_vars => \A d \in Calls : Offers(d)'
<1> SUFFICES ASSUME QInv, [Next]_vars, NEW d \in Calls PROVE Offers(d)'
  OBVIOUS
<1> USE QualityAssumptions DEF QInv, Types, Offers, Counted, Alone, Over
<1>1. ASSUME NEW c \in Calls, Begin(c) PROVE Offers(d)'
  BY <1>1 DEF Begin, Dial, client, history
<1>2. ASSUME NEW c \in Calls, Negotiate(c) PROVE Offers(d)'
  BY <1>2 DEF Negotiate, client, history
<1>3. ASSUME NEW c \in Calls, DialOk(c) PROVE Offers(d)'
  BY <1>3 DEF DialOk, client, history
<1>4. ASSUME NEW c \in Calls, DialFails(c) PROVE Offers(d)'
  BY <1>4 DEF DialFails, client, history
<1>5. ASSUME NEW c \in Calls, CountError(c) PROVE Offers(d)'
  BY <1>5 DEF CountError, Dial, client, history
<1>6. ASSUME NEW c \in Calls, Keep(c) PROVE Offers(d)'
  BY <1>6 DEF Keep, client, history
<1>7. ASSUME NEW c \in Calls, GiveUp(c) PROVE Offers(d)'
  BY <1>7 DEF GiveUp, client, history
<1>8. ASSUME NEW c \in Calls, Discard(c) PROVE Offers(d)'
  BY <1>8 DEF Discard, Dial, client, history
<1>9. ASSUME NEW c \in Calls, Rotate(c) PROVE Offers(d)'
  BY <1>9 DEF Rotate, Dial, client, history
<1>10. ASSUME UNCHANGED vars PROVE Offers(d)'
  BY <1>10 DEF vars, client, history
<1> QED
  BY <1>1, <1>2, <1>3, <1>4, <1>5, <1>6, <1>7, <1>8, <1>9, <1>10 DEF Next

(* The client's calls end as DialOutcome says: a dial is judged by its own *)
(* latency unless another ended in between, no stream is left open but the *)
(* one returned, and a failed fallback has tried every order.              *)
THEOREM DialsEndWell == Spec => []DialOutcome
<1>1. QInv /\ [Next]_vars => QInv'
  BY StepTypes, StepOwns, StepJudged, StepCounted, StepAlone, StepOffers DEF QInv
<1>2. QInv => DialOutcome
  <2> SUFFICES ASSUME QInv, NEW c \in Calls PROVE DialOutcome!(c)
    BY DEF DialOutcome
  <2> QED
    BY QualityAssumptions DEF QInv, Types, Owns, Judged, Counted, Offers
<1> QED
  BY <1>1, <1>2, InitQInv, PTL DEF Spec
===============================================================================
