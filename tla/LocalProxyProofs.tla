--------------------------- MODULE LocalProxyProofs ---------------------------
(***************************************************************************)
(* What the local servers relay and what they may cut off, for any number  *)
(* of messages and of errors of Accept.                                    *)
(***************************************************************************)
EXTENDS LocalProxy, SequenceTheorems, TLAPS

Types ==
    /\ kind \in Kinds /\ done \in BOOLEAN
    /\ client \in {"new", "open", "eof", "closed"}
    /\ target \in {"none", "open", "eof", "closed"}
    /\ h \in {"none", "greeting", "request", "dial", "reply", "relay", "close", "done"}
    /\ sent \in [client : Nat, target : Nat]
    /\ up \in Seq(Nat) /\ down \in Seq(Nat) /\ buf \in Seq(Nat)
    /\ fed \in Seq(Nat) /\ got \in Seq(Nat)
    /\ told \in Seq({"method", "refused", "ok"})
    /\ copies \subseteq {"up", "down"}

(* What cannot have happened yet at a place of the handler.                *)
Places ==
    /\ h \in {"none", "greeting", "request", "dial"} => target = "none"
    /\ h \in {"reply", "relay"} => target # "none"
    /\ h \in {"none", "greeting", "request"} => buf = <<>>
    /\ h \in {"greeting", "request", "reply"} => kind \in Inbounds
    /\ fed # <<>> \/ got # <<>> => h \in {"relay", "done"}
    /\ target = "none" => down = <<>> /\ fed = <<>> /\ got = <<>>
    /\ h = "close" => target = "none" \/ client = "closed"
    /\ h # "none" => client # "new"

(* The messages of s are consecutive and end with number n.                *)
RunTo(s, n) == \A i \in 1..Len(s) : s[i] = n - Len(s) + i

(* What the client has sent is what has arrived, what the reader of the    *)
(* request holds and what is unread, in this order; something is missing   *)
(* between the first and the second only if the target is gone.            *)
UpChain ==
    /\ Len(fed) + Len(buf) + Len(up) <= sent.client
    /\ target # "closed" => Len(fed) + Len(buf) + Len(up) = sent.client
    /\ RunTo(fed, Len(fed)) /\ RunTo(buf, sent.client - Len(up)) /\ RunTo(up, sent.client)

DownChain ==
    /\ Len(got) + Len(down) <= sent.target
    /\ client # "closed" => Len(got) + Len(down) = sent.target
    /\ RunTo(got, Len(got)) /\ RunTo(down, sent.target)

(* What the client of an inbound has been told.                            *)
Replies ==
    /\ kind \in Inbounds /\ h = "relay" /\ client # "closed" => "ok" \in Told
    /\ kind \in Inbounds /\ (fed # <<>> \/ got # <<>>) /\ client # "closed" => "ok" \in Told
    /\ "refused" \in Told => target = "none" /\ h = "done"

(* Why a copy is over.                                                     *)
Finished ==
    h = "relay" /\ "closed" \notin {client, target} =>
        /\ "up" \notin copies => client = "eof" /\ buf = <<>> /\ up = <<>>
        /\ "down" \notin copies => target = "eof" /\ down = <<>>

LInv == Types /\ Places /\ UpChain /\ DownChain /\ Replies /\ Finished /\ NothingCut

(* A server that has just started.                                         *)
LEMMA InitLInv == Init => LInv
<1> SUFFICES ASSUME Init PROVE LInv  OBVIOUS
<1>1. Types
  <2>1. <<>> \in Seq(Nat) /\ <<>> \in Seq({"method", "refused", "ok"})
    OBVIOUS
  <2>2. kind \in Kinds /\ done \in BOOLEAN
    BY DEF Init
  <2> QED
    BY <2>1, <2>2 DEF Init, Types
<1>5. Places
  BY DEF Init, Places
<1>2. UpChain /\ DownChain
  BY DEF Init, UpChain, DownChain, RunTo
<1>3. Told = {}
  BY DEF Init, Told
<1>4. Replies /\ Finished /\ NothingCut
  BY <1>3 DEF Init, Replies, Finished, NothingCut
<1> QED
  BY <1>1, <1>2, <1>4, <1>5 DEF LInv

(* Append as a function of the positions.                                  *)
LEMMA Appended ==
    ASSUME NEW S, NEW s \in Seq(S), NEW x \in S
    PROVE  /\ Append(s, x) \in Seq(S) /\ Len(Append(s, x)) = Len(s) + 1
           /\ \A i \in 1..Len(s) : Append(s, x)[i] = s[i]
           /\ Append(s, x)[Len(s) + 1] = x
OBVIOUS

(* A run of messages stays one when the next is put behind it, when it is  *)
(* cut in two and when its first message is taken.                         *)
LEMMA RunGrows ==
    ASSUME NEW n \in Int, NEW s \in Seq(Nat), n + 1 \in Nat, RunTo(s, n)
    PROVE  /\ Append(s, n + 1) \in Seq(Nat) /\ Len(Append(s, n + 1)) = Len(s) + 1
           /\ RunTo(Append(s, n + 1), n + 1)
<1> DEFINE t == Append(s, n + 1)
<1>1. t \in Seq(Nat) /\ Len(t) = Len(s) + 1 /\ Len(s) \in Nat
  OBVIOUS
<1>2. ASSUME NEW i \in 1..Len(t) PROVE t[i] = n + 1 - Len(t) + i
  <2>1. CASE i = Len(s) + 1
    <3>1. t[i] = n + 1
      BY <2>1
    <3> QED
      BY <1>1, <2>1, <3>1
  <2>2. CASE i \in 1..Len(s)
    <3>1. t[i] = s[i] /\ s[i] = n - Len(s) + i
      BY <2>2 DEF RunTo
    <3> QED
      BY <1>1, <2>2, <3>1
  <2> QED
    BY <1>1, <2>1, <2>2
<1> QED
  BY <1>1, <1>2 DEF RunTo

LEMMA RunSplits ==
    ASSUME NEW n \in Int, NEW s \in Seq(Nat), NEW k \in 0..Len(s), RunTo(s, n)
    PROVE  LET a == SubSeq(s, 1, k)
               b == SubSeq(s, k + 1, Len(s))
           IN  /\ a \in Seq(Nat) /\ b \in Seq(Nat) /\ Len(a) + Len(b) = Len(s)
               /\ RunTo(a, n - Len(b)) /\ RunTo(b, n)
<1> DEFINE a == SubSeq(s, 1, k)
           b == SubSeq(s, k + 1, Len(s))
<1>1. a \in Seq(Nat) /\ Len(a) = k /\ \A i \in 1..k : a[i] = s[i]
  OBVIOUS
<1>2. b \in Seq(Nat) /\ Len(b) = Len(s) - k /\ \A i \in 1..(Len(s) - k) : b[i] = s[k + i]
  OBVIOUS
<1>3. Len(s) \in Nat /\ k \in Nat /\ k <= Len(s)
  OBVIOUS
<1> HIDE DEF a, b
<1>4. ASSUME NEW i \in 1..Len(a) PROVE a[i] = n - Len(b) - Len(a) + i
  <2>1. i \in 1..Len(s) /\ a[i] = s[i]
    BY <1>1, <1>3
  <2> QED
    BY <1>1, <1>2, <1>3, <2>1 DEF RunTo
<1>5. ASSUME NEW i \in 1..Len(b) PROVE b[i] = n - Len(b) + i
  <2>1. k + i \in 1..Len(s) /\ b[i] = s[k + i]
    BY <1>2, <1>3
  <2> QED
    BY <1>2, <1>3, <2>1 DEF RunTo
<1>6. RunTo(a, n - Len(b)) /\ RunTo(b, n)
  BY <1>4, <1>5 DEF RunTo
<1>7. Len(a) + Len(b) = Len(s) /\ a \in Seq(Nat) /\ b \in Seq(Nat)
  BY <1>1, <1>2, <1>3
<1> QED
  BY <1>6, <1>7 DEF a, b

LEMMA RunBeheaded ==
    ASSUME NEW n \in Int, NEW s \in Seq(Nat), s # <<>>, RunTo(s, n)
    PROVE  /\ Len(s) > 0 /\ Head(s) \in Nat /\ Head(s) = n - Len(s) + 1
           /\ Tail(s) \in Seq(Nat) /\ Len(Tail(s)) = Len(s) - 1 /\ RunTo(Tail(s), n)
<1> DEFINE t == Tail(s)
<1>1. Len(s) \in Nat /\ Len(s) > 0 /\ Head(s) = s[1] /\ Head(s) \in Nat
  OBVIOUS
<1>2. t \in Seq(Nat) /\ Len(t) = Len(s) - 1 /\ \A i \in 1..Len(t) : t[i] = s[i + 1]
  OBVIOUS
<1> HIDE DEF t
<1>3. Head(s) = n - Len(s) + 1
  BY <1>1 DEF RunTo
<1>4. ASSUME NEW i \in 1..Len(t) PROVE t[i] = n - Len(t) + i
  <2>1. i + 1 \in 1..Len(s)
    BY <1>1, <1>2
  <2> QED
    BY <1>1, <1>2, <2>1 DEF RunTo
<1> QED
  BY <1>1, <1>2, <1>3, <1>4 DEF RunTo, t

(* The upward copy takes the reader's messages before the connection's.    *)
LEMMA FirstUnread ==
    ASSUME Types, buf \o up # <<>>
    PROVE  /\ buf # <<>> => Head(buf \o up) = Head(buf)
           /\ buf = <<>> => up # <<>> /\ Head(buf \o up) = Head(up)
BY DEF Types

(* A reply is added to what the client has been told, or nothing is.       *)
LEMMA TellTold ==
    ASSUME NEW m \in {"method", "refused", "ok"}, Types, Tell(m)
    PROVE  /\ told' \in Seq({"method", "refused", "ok"})
           /\ Told' = IF client = "closed" THEN Told ELSE Told \cup {m}
<1> DEFINE R == {"method", "refused", "ok"}
<1>1. CASE client = "closed"
  BY <1>1 DEF Types, Tell, Told
<1>2. CASE client # "closed"
  <2>1. told' = Append(told, m) /\ told \in Seq(R)
    BY <1>2 DEF Tell, Types
  <2>2. told' \in Seq(R) /\ DOMAIN told' = 1..(Len(told) + 1) /\ DOMAIN told = 1..Len(told)
    BY <2>1
  <2>3. /\ \A i \in 1..Len(told) : told'[i] = told[i]
        /\ told'[Len(told) + 1] = m
    BY <2>1
  <2>4. Told' \subseteq Told \cup {m}
    BY <2>1, <2>2, <2>3 DEF Told
  <2>5. Told \cup {m} \subseteq Told'
    BY <2>1, <2>2, <2>3 DEF Told
  <2> QED
    BY <1>2, <2>2, <2>4, <2>5
<1> QED
  BY <1>1, <1>2

(* Every step keeps the types.                                             *)
LEMMA StepTypes == LInv /\ [Next]_vars => Types'
<1> SUFFICES ASSUME LInv, [Next]_vars PROVE Types'  OBVIOUS
<1> USE DEF LInv, Types, Inbounds, connVars, fixed
<1>1. ASSUME Cancel PROVE Types'
  BY <1>1 DEF Cancel
<1>2. ASSUME Connect PROVE Types'
  BY <1>2 DEF Connect
<1>3. ASSUME SendRequest PROVE Types'
  BY <1>3 DEF SendRequest
<1>4. ASSUME ClientSends PROVE Types'
  <2>1. sent.client + 1 \in Nat /\ up \in Seq(Nat)
    OBVIOUS
  <2>2. up' \in Seq(Nat)
    BY <1>4, <2>1, Appended DEF ClientSends
  <2>3. sent' \in [client : Nat, target : Nat]
    BY <1>4, <2>1 DEF ClientSends
  <2> QED
    BY <1>4, <2>2, <2>3 DEF ClientSends
<1>5. ASSUME TargetSends PROVE Types'
  <2>1. sent.target + 1 \in Nat /\ down \in Seq(Nat)
    OBVIOUS
  <2>2. down' \in Seq(Nat)
    BY <1>5, <2>1, Appended DEF TargetSends
  <2>3. sent' \in [client : Nat, target : Nat]
    BY <1>5, <2>1 DEF TargetSends
  <2> QED
    BY <1>5, <2>2, <2>3 DEF TargetSends
<1>6. ASSUME NEW how \in {"eof", "closed"}, ClientEnds(how) PROVE Types'
  BY <1>6 DEF ClientEnds
<1>7. ASSUME NEW how \in {"eof", "closed"}, TargetEnds(how) PROVE Types'
  BY <1>7 DEF TargetEnds
<1>8. ASSUME CloseListener PROVE Types'
  BY <1>8 DEF CloseListener
<1>9. ASSUME Accept PROVE Types'
  BY <1>9 DEF Accept
<1>10. ASSUME AcceptError PROVE Types'
  BY <1>10 DEF AcceptError
<1>11. ASSUME DialOk PROVE Types'
  BY <1>11 DEF DialOk
<1>12. ASSUME DialFails PROVE Types'
  BY <1>12, TellTold DEF DialFails
<1>13. ASSUME NoRequest PROVE Types'
  BY <1>13 DEF NoRequest
<1>14. ASSUME Greeting PROVE Types'
  BY <1>14, TellTold DEF Greeting
<1>15. ASSUME Request PROVE Types'
  <2>1. told' \in Seq({"method", "refused", "ok"})
    BY <1>15, TellTold DEF Request
  <2>2. \A n \in 0..Len(up) :
            SubSeq(up, 1, n) \in Seq(Nat) /\ SubSeq(up, n + 1, Len(up)) \in Seq(Nat)
    OBVIOUS
  <2>3. 0 \in 0..Len(up)
    OBVIOUS
  <2>4. up' \in Seq(Nat) /\ buf' \in Seq(Nat)
    BY <1>15, <2>2, <2>3 DEF Request
  <2> QED
    BY <1>15, <2>1, <2>4 DEF Request
<1>16. ASSUME Reply PROVE Types'
  BY <1>16, TellTold DEF Reply
<1>17. ASSUME CopyUp PROVE Types'
  <2>1. Head(buf \o up) \in Nat
    BY <1>17, FirstUnread, HeadTailProperties DEF CopyUp
  <2>2. fed' \in Seq(Nat)
    BY <1>17, <2>1, Appended DEF CopyUp
  <2>3. CASE buf # <<>> /\ buf' = Tail(buf) /\ up' = up
    BY <1>17, <2>2, <2>3, HeadTailProperties DEF CopyUp
  <2>4. CASE buf = <<>> /\ up' = Tail(up) /\ buf' = buf
    BY <1>17, <2>2, <2>4, FirstUnread, HeadTailProperties DEF CopyUp
  <2> QED
    BY <1>17, <2>3, <2>4 DEF CopyUp
<1>18. ASSUME CopyDown PROVE Types'
  BY <1>18 DEF CopyDown
<1>19. ASSUME CopyEnds("up", client, target, buf \o up) PROVE Types'
  BY <1>19 DEF CopyEnds
<1>20. ASSUME CopyEnds("down", target, client, down) PROVE Types'
  BY <1>20 DEF CopyEnds
<1>21. ASSUME HandlerReturns PROVE Types'
  BY <1>21 DEF HandlerReturns
<1>22. ASSUME UNCHANGED vars PROVE Types'
  BY <1>22 DEF vars
<1>23. ASSUME NEW end \in {"client", "target"}, Stall(end) PROVE Types'
  BY <1>23 DEF Stall
<1> QED
  BY <1>1, <1>2, <1>3, <1>4, <1>5, <1>6, <1>7, <1>8, <1>9, <1>10, <1>11,
     <1>12, <1>13, <1>14, <1>15, <1>16, <1>17, <1>18, <1>19, <1>20, <1>21, <1>22, <1>23
  DEF Next, Environment, Starting, CopyingUp, CopyingDown

(* Every step of the handler moves to a place that fits.                   *)
LEMMA StepPlaces == LInv /\ [Next]_vars => Places'
<1> SUFFICES ASSUME LInv, [Next]_vars PROVE Places'  OBVIOUS
<1> USE DEF LInv, Types, Places, connVars, fixed
<1>1. ASSUME Cancel PROVE Places'
  BY <1>1 DEF Cancel
<1>2. ASSUME Connect PROVE Places'
  BY <1>2 DEF Connect
<1>3. ASSUME SendRequest PROVE Places'
  BY <1>3 DEF SendRequest
<1>4. ASSUME ClientSends PROVE Places'
  BY <1>4 DEF ClientSends
<1>5. ASSUME TargetSends PROVE Places'
  BY <1>5 DEF TargetSends
<1>6. ASSUME NEW how \in {"eof", "closed"}, ClientEnds(how) PROVE Places'
  BY <1>6 DEF ClientEnds
<1>7. ASSUME NEW how \in {"eof", "closed"}, TargetEnds(how) PROVE Places'
  BY <1>7 DEF TargetEnds
<1>8. ASSUME CloseListener PROVE Places'
  BY <1>8 DEF CloseListener
<1>9. ASSUME Accept PROVE Places'
  BY <1>9 DEF Accept, Inbounds
<1>10. ASSUME AcceptError PROVE Places'
  BY <1>10 DEF AcceptError
<1>11. ASSUME DialOk PROVE Places'
  BY <1>11 DEF DialOk
<1>12. ASSUME DialFails PROVE Places'
  BY <1>12 DEF DialFails
<1>13. ASSUME NoRequest PROVE Places'
  BY <1>13 DEF NoRequest
<1>14. ASSUME Greeting PROVE Places'
  BY <1>14 DEF Greeting
<1>15. ASSUME Request PROVE Places'
  BY <1>15 DEF Request
<1>16. ASSUME Reply PROVE Places'
  BY <1>16 DEF Reply
<1>17. ASSUME CopyUp PROVE Places'
  <2>1. h = "relay" /\ target # "none"
    BY <1>17 DEF CopyUp
  <2> QED
    BY <1>17, <2>1 DEF CopyUp
<1>18. ASSUME CopyDown PROVE Places'
  BY <1>18 DEF CopyDown
<1>19. ASSUME CopyEnds("up", client, target, buf \o up) PROVE Places'
  BY <1>19 DEF CopyEnds
<1>20. ASSUME CopyEnds("down", target, client, down) PROVE Places'
  BY <1>20 DEF CopyEnds
<1>21. ASSUME HandlerReturns PROVE Places'
  BY <1>21 DEF HandlerReturns
<1>22. ASSUME UNCHANGED vars PROVE Places'
  BY <1>22 DEF vars
<1>23. ASSUME NEW end \in {"client", "target"}, Stall(end) PROVE Places'
  BY <1>23 DEF Stall
<1> QED
  BY <1>1, <1>2, <1>3, <1>4, <1>5, <1>6, <1>7, <1>8, <1>9, <1>10, <1>11,
     <1>12, <1>13, <1>14, <1>15, <1>16, <1>17, <1>18, <1>19, <1>20, <1>21, <1>22, <1>23
  DEF Next, Environment, Starting, CopyingUp, CopyingDown

(* A message moved from the unread ones to the fed ones changes no sum.    *)
LEMMA TakenAndGiven ==
  ASSUME NEW n \in Nat, NEW f \in Nat, NEW b \in Nat, NEW u \in Nat,
         NEW f2, NEW b2 \in Nat, NEW u2 \in Nat,
         f + b + u = n, b2 + u2 = b + u - 1, f2 = f + 1
  PROVE  f2 + b2 + u2 = n
OBVIOUS

(* No step loses, repeats or reorders what goes to the target.             *)
LEMMA StepUpChain == LInv /\ [Next]_vars => UpChain'
<1> SUFFICES ASSUME LInv, [Next]_vars PROVE UpChain'  OBVIOUS
<1>1. ASSUME Cancel PROVE UpChain'
  BY <1>1 DEF Cancel, LInv, Types, Places, UpChain, connVars, fixed
<1>2. ASSUME Connect PROVE UpChain'
  BY <1>2 DEF Connect, LInv, Types, Places, UpChain, connVars, fixed
<1>3. ASSUME SendRequest PROVE UpChain'
  BY <1>3 DEF SendRequest, LInv, Types, Places, UpChain, connVars, fixed
<1>4. ASSUME ClientSends PROVE UpChain'
  <2>1. up' = Append(up, sent.client + 1) /\ up \in Seq(Nat) /\ RunTo(up, sent.client)
    BY <1>4 DEF ClientSends, LInv, Types, UpChain
  <2>2. sent'.client = sent.client + 1 /\ buf' = buf /\ fed' = fed /\ target' = target
    BY <1>4 DEF ClientSends, LInv, Types
  <2>3. sent.client \in Nat /\ Len(fed) \in Nat /\ Len(buf) \in Nat /\ Len(up) \in Nat
    BY DEF LInv, Types
  <2>4. Len(up') = Len(up) + 1 /\ RunTo(up', sent'.client)
    BY <2>1, <2>2, <2>3, RunGrows
  <2>5. sent'.client - Len(up') = sent.client - Len(up)
    BY <2>2, <2>3, <2>4
  <2> QED
    BY <2>2, <2>3, <2>4, <2>5 DEF LInv, UpChain
<1>5. ASSUME TargetSends PROVE UpChain'
  BY <1>5 DEF TargetSends, LInv, Types, Places, UpChain, connVars, fixed
<1>6. ASSUME NEW how \in {"eof", "closed"}, ClientEnds(how) PROVE UpChain'
  BY <1>6 DEF ClientEnds, LInv, Types, Places, UpChain, connVars, fixed
<1>7. ASSUME NEW how \in {"eof", "closed"}, TargetEnds(how) PROVE UpChain'
  BY <1>7 DEF TargetEnds, LInv, Types, Places, UpChain, connVars, fixed
<1>8. ASSUME CloseListener PROVE UpChain'
  BY <1>8 DEF CloseListener, LInv, Types, Places, UpChain, connVars, fixed
<1>9. ASSUME Accept PROVE UpChain'
  BY <1>9 DEF Accept, LInv, Types, Places, UpChain, connVars, fixed
<1>10. ASSUME AcceptError PROVE UpChain'
  BY <1>10 DEF AcceptError, LInv, Types, Places, UpChain, connVars, fixed
<1>11. ASSUME DialOk PROVE UpChain'
  BY <1>11 DEF DialOk, LInv, Types, Places, UpChain, connVars, fixed
<1>12. ASSUME DialFails PROVE UpChain'
  BY <1>12 DEF DialFails, LInv, Types, Places, UpChain, connVars, fixed
<1>13. ASSUME NoRequest PROVE UpChain'
  BY <1>13 DEF NoRequest, LInv, Types, Places, UpChain, connVars, fixed
<1>14. ASSUME Greeting PROVE UpChain'
  BY <1>14 DEF Greeting, LInv, Types, Places, UpChain, connVars, fixed
<1>15. ASSUME Request PROVE UpChain'
  <2>1. buf = <<>> /\ fed' = fed /\ target' = target /\ sent' = sent
    BY <1>15 DEF Request, connVars, fixed, LInv, Places
  <2>2. CASE UNCHANGED <<buf, up>>
    BY <2>1, <2>2 DEF LInv, UpChain
  <2>3. ASSUME NEW n \in 0..Len(up),
               buf' = SubSeq(up, 1, n) /\ up' = SubSeq(up, n + 1, Len(up))
        PROVE  UpChain'
    <3>1. sent.client \in Nat /\ Len(buf) = 0 /\ Len(up) \in Nat /\ Len(fed) \in Nat
      BY <2>1 DEF LInv, Types
    <3>2. sent.client \in Int /\ up \in Seq(Nat) /\ RunTo(up, sent.client)
      BY DEF LInv, Types, UpChain
    <3>3. /\ buf' \in Seq(Nat) /\ up' \in Seq(Nat) /\ Len(buf') + Len(up') = Len(up)
          /\ RunTo(buf', sent.client - Len(up')) /\ RunTo(up', sent.client)
      BY <2>3, <3>2, RunSplits
    <3>4. Len(buf') \in Nat /\ Len(up') \in Nat
      BY <3>3
    <3> QED
      BY <2>1, <3>1, <3>3, <3>4 DEF LInv, UpChain
  <2>4. up \in Seq(Nat)
    BY DEF LInv, Types
  <2> QED
    BY <1>15, <2>2, <2>3, <2>4 DEF Request
<1>16. ASSUME Reply PROVE UpChain'
  BY <1>16 DEF Reply, LInv, Types, Places, UpChain, connVars, fixed
<1>17. ASSUME CopyUp PROVE UpChain'
  <2>1. sent.client \in Nat /\ Len(fed) \in Nat /\ Len(buf) \in Nat /\ Len(up) \in Nat
    BY DEF LInv, Types
  <2>2. sent' = sent /\ target' = target /\ buf \o up # <<>> /\ Types
    BY <1>17 DEF CopyUp, connVars, fixed, LInv
  <2>3. /\ buf \in Seq(Nat) /\ RunTo(buf, sent.client - Len(up))
        /\ up \in Seq(Nat) /\ RunTo(up, sent.client)
        /\ fed \in Seq(Nat) /\ RunTo(fed, Len(fed))
    BY DEF LInv, Types, UpChain
  <2>4. /\ Len(buf') \in Nat /\ Len(up') \in Nat
        /\ Len(buf') + Len(up') = Len(buf) + Len(up) - 1
        /\ Head(buf \o up) = sent.client - Len(up) - Len(buf) + 1
        /\ RunTo(buf', sent.client - Len(up')) /\ RunTo(up', sent.client)
    <3>1. CASE buf # <<>> /\ buf' = Tail(buf) /\ up' = up
      <4>1. Head(buf \o up) = Head(buf)
        BY <2>2, <3>1, FirstUnread
      <4>2. sent.client - Len(up) \in Int
        BY <2>1
      <4>3. /\ Len(buf) > 0 /\ Head(buf) = sent.client - Len(up) - Len(buf) + 1
            /\ Len(buf') = Len(buf) - 1 /\ RunTo(buf', sent.client - Len(up))
        BY <2>3, <3>1, <4>2, RunBeheaded
      <4> QED
        BY <2>1, <2>3, <3>1, <4>1, <4>3
    <3>2. CASE buf = <<>> /\ up' = Tail(up) /\ buf' = buf
      <4>1. up # <<>> /\ Head(buf \o up) = Head(up)
        BY <2>2, <3>2, FirstUnread
      <4>2. sent.client \in Int
        BY <2>1
      <4>3. /\ Len(up) > 0 /\ Head(up) = sent.client - Len(up) + 1
            /\ Len(up') = Len(up) - 1 /\ RunTo(up', sent.client)
        BY <2>3, <3>2, <4>1, <4>2, RunBeheaded
      <4>4. Len(buf) = 0 /\ RunTo(buf', sent.client - Len(up'))
        BY <3>2 DEF RunTo
      <4> QED
        BY <2>1, <3>2, <4>1, <4>3, <4>4
    <3> QED
      BY <1>17, <3>1, <3>2 DEF CopyUp
  <2>5. CASE target = "closed" /\ fed' = fed
    BY <2>1, <2>2, <2>4, <2>5 DEF LInv, UpChain
  <2>6. CASE target # "closed" /\ fed' = Append(fed, Head(buf \o up))
    <3>1. Len(fed) + Len(buf) + Len(up) = sent.client
      BY <2>6 DEF LInv, UpChain
    <3>2. Head(buf \o up) = Len(fed) + 1
      BY <2>1, <2>4, <3>1
    <3>3. Len(fed) \in Int /\ Len(fed) + 1 \in Nat
      BY <2>1
    <3>4. Len(fed') = Len(fed) + 1 /\ RunTo(fed', Len(fed) + 1)
      BY <2>3, <2>6, <3>2, <3>3, RunGrows
    <3>5. Len(fed') + Len(buf') + Len(up') = sent.client
      <4>1. /\ Len(buf') \in Nat /\ Len(up') \in Nat
            /\ Len(buf') + Len(up') = Len(buf) + Len(up) - 1
        BY <2>4
      <4>2. Len(fed') = Len(fed) + 1
        BY <3>4
      <4> QED
        BY <2>1, <3>1, <4>1, <4>2, TakenAndGiven
    <3>6. Len(fed') + Len(buf') + Len(up') <= sent.client
      BY <2>1, <3>5
    <3> QED
      BY <2>2, <2>4, <3>4, <3>5, <3>6 DEF UpChain
  <2> QED
    BY <1>17, <2>5, <2>6 DEF CopyUp
<1>18. ASSUME CopyDown PROVE UpChain'
  BY <1>18 DEF CopyDown, LInv, Types, Places, UpChain, connVars, fixed
<1>19. ASSUME CopyEnds("up", client, target, buf \o up) PROVE UpChain'
  BY <1>19 DEF CopyEnds, LInv, Types, Places, UpChain, connVars, fixed
<1>20. ASSUME CopyEnds("down", target, client, down) PROVE UpChain'
  BY <1>20 DEF CopyEnds, LInv, Types, Places, UpChain, connVars, fixed
<1>21. ASSUME HandlerReturns PROVE UpChain'
  BY <1>21 DEF HandlerReturns, LInv, Types, Places, UpChain, connVars, fixed
<1>22. ASSUME UNCHANGED vars PROVE UpChain'
  BY <1>22 DEF vars, LInv, Types, Places, UpChain, connVars, fixed
<1>23. ASSUME NEW end \in {"client", "target"}, Stall(end) PROVE UpChain'
  BY <1>23 DEF Stall, LInv, Types, Places, UpChain, connVars, fixed
<1> QED
  BY <1>1, <1>2, <1>3, <1>4, <1>5, <1>6, <1>7, <1>8, <1>9, <1>10, <1>11,
     <1>12, <1>13, <1>14, <1>15, <1>16, <1>17, <1>18, <1>19, <1>20, <1>21, <1>22, <1>23
  DEF Next, Environment, Starting, CopyingUp, CopyingDown

(* No step loses, repeats or reorders what goes to the client.             *)
LEMMA StepDownChain == LInv /\ [Next]_vars => DownChain'
<1> SUFFICES ASSUME LInv, [Next]_vars PROVE DownChain'  OBVIOUS
<1>1. ASSUME Cancel PROVE DownChain'
  BY <1>1 DEF Cancel, LInv, Types, Places, DownChain, connVars, fixed
<1>2. ASSUME Connect PROVE DownChain'
  BY <1>2 DEF Connect, LInv, Types, Places, DownChain, connVars, fixed
<1>3. ASSUME SendRequest PROVE DownChain'
  BY <1>3 DEF SendRequest, LInv, Types, Places, DownChain, connVars, fixed
<1>4. ASSUME ClientSends PROVE DownChain'
  BY <1>4 DEF ClientSends, LInv, Types, Places, DownChain, connVars, fixed
<1>5. ASSUME TargetSends PROVE DownChain'
  <2>1. /\ sent.target \in Nat /\ sent'.target = sent.target + 1
        /\ down' = Append(down, sent.target + 1) /\ down \in Seq(Nat)
        /\ got' = got /\ client' = client
    BY <1>5 DEF TargetSends, LInv, Types
  <2>2. DownChain /\ Len(got) \in Nat /\ Len(down) \in Nat
    BY DEF LInv, Types
  <2>3. Len(down') = Len(down) + 1 /\ RunTo(down', sent'.target)
    BY <2>1, <2>2, RunGrows DEF DownChain
  <2> QED
    BY <2>1, <2>2, <2>3 DEF DownChain
<1>6. ASSUME NEW how \in {"eof", "closed"}, ClientEnds(how) PROVE DownChain'
  BY <1>6 DEF ClientEnds, LInv, Types, Places, DownChain, connVars, fixed
<1>7. ASSUME NEW how \in {"eof", "closed"}, TargetEnds(how) PROVE DownChain'
  BY <1>7 DEF TargetEnds, LInv, Types, Places, DownChain, connVars, fixed
<1>8. ASSUME CloseListener PROVE DownChain'
  BY <1>8 DEF CloseListener, LInv, Types, Places, DownChain, connVars, fixed
<1>9. ASSUME Accept PROVE DownChain'
  BY <1>9 DEF Accept, LInv, Types, Places, DownChain, connVars, fixed
<1>10. ASSUME AcceptError PROVE DownChain'
  BY <1>10 DEF AcceptError, LInv, Types, Places, DownChain, connVars, fixed
<1>11. ASSUME DialOk PROVE DownChain'
  BY <1>11 DEF DialOk, LInv, Types, Places, DownChain, connVars, fixed
<1>12. ASSUME DialFails PROVE DownChain'
  BY <1>12 DEF DialFails, LInv, Types, Places, DownChain, connVars, fixed
<1>13. ASSUME NoRequest PROVE DownChain'
  BY <1>13 DEF NoRequest, LInv, Types, Places, DownChain, connVars, fixed
<1>14. ASSUME Greeting PROVE DownChain'
  BY <1>14 DEF Greeting, LInv, Types, Places, DownChain, connVars, fixed
<1>15. ASSUME Request PROVE DownChain'
  BY <1>15 DEF Request, LInv, Types, Places, DownChain, connVars, fixed
<1>16. ASSUME Reply PROVE DownChain'
  BY <1>16 DEF Reply, LInv, Types, Places, DownChain, connVars, fixed
<1>17. ASSUME CopyUp PROVE DownChain'
  BY <1>17 DEF CopyUp, LInv, Types, Places, DownChain, connVars, fixed
<1>18. ASSUME CopyDown PROVE DownChain'
  <2>1. sent.target \in Nat /\ Len(got) \in Nat /\ Len(down) \in Nat
    BY DEF LInv, Types
  <2>2. /\ down \in Seq(Nat) /\ sent.target \in Int /\ RunTo(down, sent.target)
        /\ got \in Seq(Nat) /\ RunTo(got, Len(got))
    BY DEF LInv, Types, DownChain
  <2>3. sent' = sent /\ client' = client /\ down' = Tail(down) /\ down # <<>>
    BY <1>18 DEF CopyDown, connVars, fixed
  <2>4. /\ Len(down) > 0 /\ Head(down) = sent.target - Len(down) + 1
        /\ Len(down') = Len(down) - 1 /\ RunTo(down', sent.target)
    BY <2>2, <2>3, RunBeheaded
  <2>5. CASE client = "closed" /\ got' = got
    BY <2>1, <2>3, <2>4, <2>5 DEF LInv, DownChain
  <2>6. CASE client # "closed" /\ got' = Append(got, Head(down))
    <3>1. Len(got) + Len(down) = sent.target
      BY <2>6 DEF LInv, DownChain
    <3>2. Head(down) = Len(got) + 1
      BY <2>1, <2>4, <3>1
    <3>3. Len(got) \in Int /\ Len(got) + 1 \in Nat
      BY <2>1
    <3>4. Len(got') = Len(got) + 1 /\ RunTo(got', Len(got) + 1)
      BY <2>2, <2>6, <3>2, <3>3, RunGrows
    <3> QED
      BY <2>1, <2>3, <2>4, <3>1, <3>4 DEF DownChain
  <2> QED
    BY <1>18, <2>5, <2>6 DEF CopyDown
<1>19. ASSUME CopyEnds("up", client, target, buf \o up) PROVE DownChain'
  BY <1>19 DEF CopyEnds, LInv, Types, Places, DownChain, connVars, fixed
<1>20. ASSUME CopyEnds("down", target, client, down) PROVE DownChain'
  BY <1>20 DEF CopyEnds, LInv, Types, Places, DownChain, connVars, fixed
<1>21. ASSUME HandlerReturns PROVE DownChain'
  BY <1>21 DEF HandlerReturns, LInv, Types, Places, DownChain, connVars, fixed
<1>22. ASSUME UNCHANGED vars PROVE DownChain'
  BY <1>22 DEF vars, LInv, Types, Places, DownChain, connVars, fixed
<1>23. ASSUME NEW end \in {"client", "target"}, Stall(end) PROVE DownChain'
  BY <1>23 DEF Stall, LInv, Types, Places, DownChain, connVars, fixed
<1> QED
  BY <1>1, <1>2, <1>3, <1>4, <1>5, <1>6, <1>7, <1>8, <1>9, <1>10, <1>11,
     <1>12, <1>13, <1>14, <1>15, <1>16, <1>17, <1>18, <1>19, <1>20, <1>21, <1>22, <1>23
  DEF Next, Environment, Starting, CopyingUp, CopyingDown

(* No step relays before the reply or dials after a refusal.               *)
LEMMA StepReplies == LInv /\ [Next]_vars => Replies'
<1> SUFFICES ASSUME LInv, [Next]_vars PROVE Replies'  OBVIOUS
<1> USE DEF LInv, Types, Places, Replies, connVars, fixed
<1>1. ASSUME Cancel PROVE Replies'
  BY <1>1 DEF Cancel, Told
<1>2. ASSUME Connect PROVE Replies'
  BY <1>2 DEF Connect, Told
<1>3. ASSUME SendRequest PROVE Replies'
  BY <1>3 DEF SendRequest, Told
<1>4. ASSUME ClientSends PROVE Replies'
  BY <1>4 DEF ClientSends, Told
<1>5. ASSUME TargetSends PROVE Replies'
  BY <1>5 DEF TargetSends, Told
<1>6. ASSUME NEW how \in {"eof", "closed"}, ClientEnds(how) PROVE Replies'
  BY <1>6 DEF ClientEnds, Told
<1>7. ASSUME NEW how \in {"eof", "closed"}, TargetEnds(how) PROVE Replies'
  BY <1>7 DEF TargetEnds, Told
<1>8. ASSUME CloseListener PROVE Replies'
  BY <1>8 DEF CloseListener, Told
<1>9. ASSUME Accept PROVE Replies'
  BY <1>9 DEF Accept, Told
<1>10. ASSUME AcceptError PROVE Replies'
  BY <1>10 DEF AcceptError, Told
<1>11. ASSUME DialOk PROVE Replies'
  BY <1>11 DEF DialOk, Told
<1>12. ASSUME DialFails PROVE Replies'
  BY <1>12, TellTold DEF DialFails
<1>13. ASSUME NoRequest PROVE Replies'
  BY <1>13 DEF NoRequest, Told
<1>14. ASSUME Greeting PROVE Replies'
  BY <1>14, TellTold DEF Greeting
<1>15. ASSUME Request PROVE Replies'
  <2>1. /\ target' = target /\ target = "none" /\ client' = client /\ kind' = kind
        /\ fed' = <<>> /\ got' = <<>> /\ h' # "relay"
    BY <1>15 DEF Request
  <2>2. "refused" \in Told' => h' = "done"
    BY <1>15, TellTold DEF Request, Told
  <2> QED
    BY <2>1, <2>2
<1>16. ASSUME Reply PROVE Replies'
  <2>1. "refused" \notin Told /\ client' = client
    BY <1>16 DEF Reply
  <2>2. CASE Tell("ok")
    BY <1>16, <2>1, <2>2, TellTold DEF Reply
  <2>3. CASE client = "closed" /\ told' = told
    BY <1>16, <2>1, <2>3 DEF Reply, Told
  <2> QED
    BY <1>16, <2>2, <2>3 DEF Reply
<1>17. ASSUME CopyUp PROVE Replies'
  BY <1>17 DEF CopyUp, Told
<1>18. ASSUME CopyDown PROVE Replies'
  BY <1>18 DEF CopyDown, Told
<1>19. ASSUME CopyEnds("up", client, target, buf \o up) PROVE Replies'
  BY <1>19 DEF CopyEnds, Told
<1>20. ASSUME CopyEnds("down", target, client, down) PROVE Replies'
  BY <1>20 DEF CopyEnds, Told
<1>21. ASSUME HandlerReturns PROVE Replies'
  BY <1>21 DEF HandlerReturns, Told
<1>22. ASSUME UNCHANGED vars PROVE Replies'
  BY <1>22 DEF vars, Told
<1>23. ASSUME NEW end \in {"client", "target"}, Stall(end) PROVE Replies'
  BY <1>23 DEF Stall, Told
<1> QED
  BY <1>1, <1>2, <1>3, <1>4, <1>5, <1>6, <1>7, <1>8, <1>9, <1>10, <1>11,
     <1>12, <1>13, <1>14, <1>15, <1>16, <1>17, <1>18, <1>19, <1>20, <1>21, <1>22, <1>23
  DEF Next, Environment, Starting, CopyingUp, CopyingDown

(* A copy ends only at the end of its input, or when an end is closed.     *)
LEMMA StepFinished == LInv /\ [Next]_vars => Finished'
<1> SUFFICES ASSUME LInv, [Next]_vars PROVE Finished'  OBVIOUS
<1> USE DEF LInv, Types, Places, Finished, connVars, fixed
<1>1. ASSUME Cancel PROVE Finished'
  BY <1>1 DEF Cancel
<1>2. ASSUME Connect PROVE Finished'
  BY <1>2 DEF Connect
<1>3. ASSUME SendRequest PROVE Finished'
  BY <1>3 DEF SendRequest
<1>4. ASSUME ClientSends PROVE Finished'
  BY <1>4 DEF ClientSends
<1>5. ASSUME TargetSends PROVE Finished'
  BY <1>5 DEF TargetSends
<1>6. ASSUME NEW how \in {"eof", "closed"}, ClientEnds(how) PROVE Finished'
  BY <1>6 DEF ClientEnds
<1>7. ASSUME NEW how \in {"eof", "closed"}, TargetEnds(how) PROVE Finished'
  BY <1>7 DEF TargetEnds
<1>8. ASSUME CloseListener PROVE Finished'
  BY <1>8 DEF CloseListener
<1>9. ASSUME Accept PROVE Finished'
  BY <1>9 DEF Accept
<1>10. ASSUME AcceptError PROVE Finished'
  BY <1>10 DEF AcceptError
<1>11. ASSUME DialOk PROVE Finished'
  BY <1>11 DEF DialOk
<1>12. ASSUME DialFails PROVE Finished'
  BY <1>12 DEF DialFails
<1>13. ASSUME NoRequest PROVE Finished'
  BY <1>13 DEF NoRequest
<1>14. ASSUME Greeting PROVE Finished'
  BY <1>14 DEF Greeting
<1>15. ASSUME Request PROVE Finished'
  BY <1>15 DEF Request
<1>16. ASSUME Reply PROVE Finished'
  BY <1>16 DEF Reply
<1>17. ASSUME CopyUp PROVE Finished'
  BY <1>17 DEF CopyUp
<1>18. ASSUME CopyDown PROVE Finished'
  BY <1>18 DEF CopyDown
<1>19. ASSUME CopyEnds("up", client, target, buf \o up) PROVE Finished'
  <2>1. buf \o up = <<>> => buf = <<>> /\ up = <<>>
    OBVIOUS
  <2>2. client # "new"
    BY <1>19 DEF CopyEnds
  <2> QED
    BY <1>19, <2>1, <2>2 DEF CopyEnds
<1>20. ASSUME CopyEnds("down", target, client, down) PROVE Finished'
  BY <1>20 DEF CopyEnds
<1>21. ASSUME HandlerReturns PROVE Finished'
  BY <1>21 DEF HandlerReturns
<1>22. ASSUME UNCHANGED vars PROVE Finished'
  BY <1>22 DEF vars
<1>23. ASSUME NEW end \in {"client", "target"}, Stall(end) PROVE Finished'
  BY <1>23 DEF Stall
<1> QED
  BY <1>1, <1>2, <1>3, <1>4, <1>5, <1>6, <1>7, <1>8, <1>9, <1>10, <1>11,
     <1>12, <1>13, <1>14, <1>15, <1>16, <1>17, <1>18, <1>19, <1>20, <1>21, <1>22, <1>23
  DEF Next, Environment, Starting, CopyingUp, CopyingDown

(* The copies are over for a reason when the handler returns.              *)
LEMMA StepNothingCut == LInv /\ [Next]_vars => NothingCut'
<1> SUFFICES ASSUME LInv, [Next]_vars PROVE NothingCut'  OBVIOUS
<1> USE DEF LInv, Types, Places, UpChain, DownChain, Finished, NothingCut, connVars, fixed
<1>1. ASSUME Cancel PROVE NothingCut'
  BY <1>1 DEF Cancel
<1>2. ASSUME Connect PROVE NothingCut'
  BY <1>2 DEF Connect
<1>3. ASSUME SendRequest PROVE NothingCut'
  BY <1>3 DEF SendRequest
<1>4. ASSUME ClientSends PROVE NothingCut'
  BY <1>4 DEF ClientSends
<1>5. ASSUME TargetSends PROVE NothingCut'
  BY <1>5 DEF TargetSends
<1>6. ASSUME NEW how \in {"eof", "closed"}, ClientEnds(how) PROVE NothingCut'
  BY <1>6 DEF ClientEnds
<1>7. ASSUME NEW how \in {"eof", "closed"}, TargetEnds(how) PROVE NothingCut'
  BY <1>7 DEF TargetEnds
<1>8. ASSUME CloseListener PROVE NothingCut'
  BY <1>8 DEF CloseListener
<1>9. ASSUME Accept PROVE NothingCut'
  BY <1>9 DEF Accept
<1>10. ASSUME AcceptError PROVE NothingCut'
  BY <1>10 DEF AcceptError
<1>11. ASSUME DialOk PROVE NothingCut'
  BY <1>11 DEF DialOk
<1>12. ASSUME DialFails PROVE NothingCut'
  BY <1>12 DEF DialFails
<1>13. ASSUME NoRequest PROVE NothingCut'
  BY <1>13 DEF NoRequest
<1>14. ASSUME Greeting PROVE NothingCut'
  BY <1>14 DEF Greeting
<1>15. ASSUME Request PROVE NothingCut'
  BY <1>15 DEF Request
<1>16. ASSUME Reply PROVE NothingCut'
  BY <1>16 DEF Reply
<1>17. ASSUME CopyUp PROVE NothingCut'
  BY <1>17 DEF CopyUp
<1>18. ASSUME CopyDown PROVE NothingCut'
  BY <1>18 DEF CopyDown
<1>19. ASSUME CopyEnds("up", client, target, buf \o up) PROVE NothingCut'
  BY <1>19 DEF CopyEnds
<1>20. ASSUME CopyEnds("down", target, client, down) PROVE NothingCut'
  BY <1>20 DEF CopyEnds
<1>21. ASSUME HandlerReturns PROVE NothingCut'
  <2>1. CASE h = "close"
    BY <1>21, <2>1 DEF HandlerReturns
  <2>2. CASE h = "relay" /\ Waited
    <3> SUFFICES ASSUME "closed" \notin {client, target} PROVE NothingCut'
      BY <1>21 DEF HandlerReturns
    <3>1. "up" \notin copies => client = "eof" /\ Len(fed) = sent.client
      BY <2>2
    <3>2. "down" \notin copies => target = "eof" /\ Len(got) = sent.target
      BY <2>2
    <3>3. \/ "up" \notin copies /\ "down" \notin copies
          \/ kind \in WaitsForOne /\ ("up" \notin copies \/ "down" \notin copies)
          \/ kind = "forwarder" /\ done
      BY <2>2 DEF Waited
    <3> QED
      BY <1>21, <3>1, <3>2, <3>3 DEF HandlerReturns
  <2> QED
    BY <1>21, <2>1, <2>2 DEF HandlerReturns
<1>22. ASSUME UNCHANGED vars PROVE NothingCut'
  BY <1>22 DEF vars
<1>23. ASSUME NEW end \in {"client", "target"}, Stall(end) PROVE NothingCut'
  BY <1>23 DEF Stall
<1> QED
  BY <1>1, <1>2, <1>3, <1>4, <1>5, <1>6, <1>7, <1>8, <1>9, <1>10, <1>11,
     <1>12, <1>13, <1>14, <1>15, <1>16, <1>17, <1>18, <1>19, <1>20, <1>21, <1>22, <1>23
  DEF Next, Environment, Starting, CopyingUp, CopyingDown

(* Whatever the ends do, io.Copy hands each what the other has sent in     *)
(* order and complete so far, what the reader of the request held first,   *)
(* and the reply of the inbound comes before data.                         *)
THEOREM RelaysInOrder == Spec => []RelayedInOrder
<1>1. LInv /\ [Next]_vars => LInv'
  BY StepTypes, StepPlaces, StepUpChain, StepDownChain, StepReplies, StepFinished,
     StepNothingCut DEF LInv
<1>2. LInv => RelayedInOrder
  BY DEF LInv, Types, UpChain, DownChain, Replies, RelayedInOrder, Prefix, RunTo
<1> QED
  BY <1>1, <1>2, InitLInv, PTL DEF Spec

(* A handler that returns from its relay while neither end has gone away   *)
(* has delivered both directions whole; those that wait for one copy only  *)
(* have delivered one, and a cancelled proxy-forwarder may have cut both.  *)
THEOREM NothingIsCut == Spec => []NothingCut
<1>1. LInv /\ [Next]_vars => LInv'
  BY StepTypes, StepPlaces, StepUpChain, StepDownChain, StepReplies, StepFinished,
     StepNothingCut DEF LInv
<1>2. LInv => NothingCut
  BY DEF LInv
<1> QED
  BY <1>1, <1>2, InitLInv, PTL DEF Spec
===============================================================================
