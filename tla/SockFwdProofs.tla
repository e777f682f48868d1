--------------------------- MODULE SockFwdProofs ----------------------------
(***************************************************************************)
(* Proofs about the socket forwarder, for every number of forwarders in    *)
(* the chain, every number of bytes and every window.                      *)
(***************************************************************************)
EXTENDS SockFwd, TLAPS

PumpState == [pc : {"off", "read", "write", "drain", "raised", "done"}, data : Seq(Nat)]

-----------------------------------------------------------------------------
(* The chain.                                                              *)

\* Ends are pairs of a socket and a side.
LEMMA EndPairs == \A e : e \in End <=> \E k \in 1..(Hops + 1) : e = <<k, "c">> \/ e = <<k, "s">>
  BY DEF End

\* Every socket has two ends.
LEMMA OppFacts ==
  ASSUME NEW e \in End
  PROVE  Opp(e) \in End /\ Opp(Opp(e)) = e /\ Opp(e) # e
  BY EndPairs DEF Opp

\* The two pumps of a forwarder write to what the other one reads from.
LEMMA WriterFacts ==
  ASSUME NEW p \in Pump
  PROVE  p \in End /\ Writer(p) \in Pump /\ Writer(Writer(p)) = p /\ Writer(p) # p
<1>1. PICK k \in 1..(Hops + 1) : p = <<k, "c">> \/ p = <<k, "s">>
  BY EndPairs DEF Pump
<1>2. p # <<1, "c">> /\ p # <<Hops + 1, "s">>
  BY DEF Pump, App, client, node
<1>3. CASE p = <<k, "s">>
  <2>1. k \in 1..Hops /\ k + 1 \in 1..(Hops + 1)
    BY <1>2, <1>3, FwdAssumption
  <2>2. Writer(p) = <<k + 1, "c">> /\ Writer(<<k + 1, "c">>) = <<(k + 1) - 1, "s">>
    BY <1>3 DEF Writer
  <2>3. <<k + 1, "c">> \in End
    BY <2>1, EndPairs
  <2> QED BY <1>3, <2>1, <2>2, <2>3, FwdAssumption DEF Pump, App, client, node
<1>4. CASE p = <<k, "c">>
  <2>1. k \in 2..(Hops + 1) /\ k - 1 \in 1..Hops
    BY <1>2, <1>4, FwdAssumption
  <2>2. Writer(p) = <<k - 1, "s">> /\ Writer(<<k - 1, "s">>) = <<(k - 1) + 1, "c">>
    BY <1>4 DEF Writer
  <2>3. <<k - 1, "s">> \in End
    BY <2>1, EndPairs, FwdAssumption
  <2> QED BY <1>4, <2>1, <2>2, <2>3, FwdAssumption DEF Pump, App, client, node
<1> QED BY <1>1, <1>3, <1>4 DEF Pump

\* Next to the client, and to the node, there is a forwarder.
LEMMA AppFacts ==
  ASSUME NEW a \in App
  PROVE  a \in End /\ a \notin Pump /\ Opp(a) \in Pump /\ client # node
<1>1. <<1, "c">> \in End /\ <<1, "s">> \in End /\ <<Hops + 1, "c">> \in End /\ <<Hops + 1, "s">> \in End
  BY EndPairs, FwdAssumption
<1> QED BY <1>1, FwdAssumption DEF App, Pump, client, node, Opp

\* An end is read by a pump, or by the client or the node.
LEMMA EndIsRead == End = Pump \cup App
  BY AppFacts DEF Pump

\* A forwarder reads from the socket it accepted and from the one it opened.
LEMMA ForwarderFacts ==
  ASSUME NEW f \in 1..Hops
  PROVE  Near(f) \in Pump /\ Far(f) \in Pump /\ Far(f) = Writer(Near(f)) /\ Near(f) = Writer(Far(f))
<1>1. <<f, "s">> \in End /\ <<f + 1, "c">> \in End
  BY EndPairs, FwdAssumption
<1>2. Near(f) \in Pump /\ Far(f) \in Pump
  BY <1>1, FwdAssumption DEF Near, Far, Pump, App, client, node
<1> QED BY <1>2, WriterFacts, FwdAssumption DEF Near, Far, Writer

-----------------------------------------------------------------------------
(* Types.                                                                  *)

LEMMA EmptyBytes == <<>> \in Seq(Nat) /\ Len(<<>>) = 0
  OBVIOUS

\* What is left of some bytes, and what is taken from them.
LEMMA TakenBytes ==
  ASSUME NEW s \in Seq(Nat), NEW n \in 0..Len(s)
  PROVE  /\ Prefix(s, n) \in Seq(Nat) /\ Len(Prefix(s, n)) = n
         /\ \A i \in 1..n : Prefix(s, n)[i] = s[i]
         /\ SubSeq(s, n + 1, Len(s)) \in Seq(Nat) /\ Len(SubSeq(s, n + 1, Len(s))) = Len(s) - n
         /\ \A i \in 1..(Len(s) - n) : SubSeq(s, n + 1, Len(s))[i] = s[n + i]
<1>1. Len(s) \in Nat /\ n \in Nat /\ n <= Len(s)
  OBVIOUS
<1>2. /\ Prefix(s, n) \in Seq(Nat) /\ Len(Prefix(s, n)) = n
      /\ \A i \in 1..n : Prefix(s, n)[i] = s[i]
  BY <1>1 DEF Prefix
<1>3. /\ SubSeq(s, n + 1, Len(s)) \in Seq(Nat) /\ Len(SubSeq(s, n + 1, Len(s))) = Len(s) - n
      /\ \A i \in 1..(Len(s) - n) : SubSeq(s, n + 1, Len(s))[i] = s[n + i]
  BY <1>1
<1> QED BY <1>2, <1>3

\* Bytes appended to others.
LEMMA JoinedBytes ==
  ASSUME NEW s \in Seq(Nat), NEW b \in Seq(Nat)
  PROVE  /\ s \o b \in Seq(Nat) /\ Len(s \o b) = Len(s) + Len(b)
         /\ \A i \in 1..Len(s) : (s \o b)[i] = s[i]
         /\ \A i \in 1..Len(b) : (s \o b)[Len(s) + i] = b[i]
  OBVIOUS

SocksOK == /\ up \in [End -> {"none", "open", "closed"}]
           /\ in \in [End -> Seq(Nat)] /\ reset \in [End -> BOOLEAN]

LEMMA DeliverType ==
  ASSUME TypeOK, NEW e \in End, NEW b \in Seq(Nat), Deliver(e, b)
  PROVE  SocksOK'
<1>1. Opp(e) \in End
  BY OppFacts
<1>2. in[Opp(e)] \o b \in Seq(Nat)
  BY <1>1, JoinedBytes DEF TypeOK
<1> QED BY <1>1, <1>2 DEF TypeOK, Deliver, SocksOK

LEMMA ClosedType ==
  ASSUME TypeOK, NEW e \in End, NEW n \in 0..Len(in[e]), Closed(e, n)
  PROVE  SocksOK'
<1>1. Opp(e) \in End /\ in[e] \in Seq(Nat)
  BY OppFacts DEF TypeOK
<1>2. Prefix(in[e], n) \in Seq(Nat)
  BY <1>1, TakenBytes
<1>3. up' \in [End -> {"none", "open", "closed"}]
  BY DEF TypeOK, Closed
<1>4. in' \in [End -> Seq(Nat)]
  BY <1>2 DEF TypeOK, Closed
<1>5. reset' \in [End -> BOOLEAN]
  BY <1>1 DEF TypeOK, Closed
<1> QED BY <1>3, <1>4, <1>5 DEF SocksOK

PumpsOK == /\ pump \in [Pump -> PumpState]
           /\ \A p \in Pump : At(p, "write") <=> pump[p].data # <<>>

LEMMA PumpType ==
  ASSUME TypeOK, NEW p \in Pump, NEW r \in PumpState, r.pc = "write" <=> r.data # <<>>,
         pump' = [pump EXCEPT ![p] = r]
  PROVE  PumpsOK'
  BY DEF TypeOK, PumpsOK, PumpState, At

AppsOK == /\ sent \in [App -> 0..MaxBytes] /\ got \in [App -> Seq(Nat)]
          /\ saw \in [App -> {"none", "eof", "reset"}] /\ killed \in BOOLEAN

LEMMA TypeParts == /\ TypeOK <=> SocksOK /\ PumpsOK /\ AppsOK
                   /\ TypeOK' <=> SocksOK' /\ PumpsOK' /\ AppsOK'
  BY Zenon DEF TypeOK, SocksOK, PumpsOK, AppsOK, PumpState

LEMMA InitType == Init => TypeOK
<1> SUFFICES ASSUME Init PROVE TypeOK
  OBVIOUS
<1>1. SocksOK
  BY EmptyBytes DEF Init, SocksOK
<1>2. PumpsOK
  BY EmptyBytes DEF Init, PumpsOK, PumpState, At
<1>3. AppsOK
  <2>1. 0 \in 0..MaxBytes
    BY FwdAssumption
  <2> QED BY <2>1, EmptyBytes, Zenon DEF Init, AppsOK
<1> QED BY <1>1, <1>2, <1>3, TypeParts

LEMMA FinallyType ==
  ASSUME TypeOK, NEW p \in Pump, Finally(p)
  PROVE  PumpsOK' /\ SocksOK'
<1> DEFINE r == [pc |-> "done", data |-> <<>>]
<1>1. r \in PumpState /\ (r.pc = "write" <=> r.data # <<>>)
  BY EmptyBytes DEF PumpState
<1>2. pump' = [pump EXCEPT ![p] = r] /\ CloseEnd(Writer(p)) /\ Writer(p) \in End
  BY WriterFacts DEF Finally
<1> HIDE DEF r
<1> QED BY <1>1, <1>2, PumpType, ClosedType DEF CloseEnd

\* A pump does nothing before both sockets of its forwarder are connected.
Unstarted == \A p \in Pump : up[p] = "none" \/ up[Writer(p)] = "none"
                               => At(p, "off") \/ (At(p, "done") /\ "closed" \in {up[p], up[Writer(p)]})

LEMMA TypeStep == TypeOK /\ Unstarted /\ [Next]_vars => TypeOK'
<1> SUFFICES ASSUME TypeOK, Unstarted, [Next]_vars PROVE TypeOK'
  OBVIOUS
<1> USE TypeParts
<1>0. SocksOK /\ PumpsOK /\ AppsOK
  OBVIOUS
<1>1. ASSUME NEW f \in 1..Hops, Connects(f) PROVE TypeOK'
  <2>1. Near(f) \in Pump /\ Far(f) \in Pump /\ Near(f) \in End /\ Far(f) \in End /\ Opp(Far(f)) \in End /\ Near(f) # Far(f)
    BY ForwarderFacts, WriterFacts, OppFacts
  <2>2. SocksOK'
    BY <1>0, <1>1, <2>1 DEF Connects, SocksOK
  <2>3. PumpsOK'
    <3>1. pump[Near(f)].data = <<>> /\ pump[Far(f)].data = <<>>
      BY <1>0, <1>1, <2>1, ForwarderFacts DEF PumpsOK, At, Connects, Unstarted
    <3>2. pump' \in [Pump -> PumpState]
      BY <1>0, <1>1, <2>1 DEF Connects, PumpsOK, PumpState
    <3>3. /\ pump'[Near(f)].pc = "read" /\ pump'[Near(f)].data = <<>>
          /\ pump'[Far(f)].pc = "read" /\ pump'[Far(f)].data = <<>>
          /\ \A p \in Pump \ {Near(f), Far(f)} : pump'[p] = pump[p]
      BY <1>0, <1>1, <2>1, <3>1 DEF Connects, PumpsOK, PumpState
    <3> QED BY <1>0, <3>2, <3>3 DEF PumpsOK, At
  <2> QED BY <1>0, <1>1, <2>2, <2>3 DEF Connects, AppsOK, appVars
<1>2. ASSUME NEW f \in 1..Hops, ConnectFails(f) PROVE TypeOK'
  <2>1. Near(f) \in End
    BY ForwarderFacts, WriterFacts
  <2>2. SocksOK'
    BY <1>2, <2>1, ClosedType DEF ConnectFails, CloseEnd
  <2> QED BY <1>0, <1>2, <2>2 DEF ConnectFails, PumpsOK, At, AppsOK, appVars
<1>3. ASSUME NEW p \in Pump, Read(p) PROVE TypeOK'
  <2>1. p \in End /\ in[p] \in Seq(Nat)
    BY WriterFacts DEF TypeOK
  <2>2. PICK n \in 1..Len(in[p]) :
          /\ pump' = [pump EXCEPT ![p] = [pc |-> "write", data |-> Prefix(in[p], n)]]
          /\ in' = [in EXCEPT ![p] = SubSeq(@, n + 1, Len(@))]
    BY <1>3 DEF Read
  <2>3. /\ Prefix(in[p], n) \in Seq(Nat) /\ Prefix(in[p], n) # <<>>
        /\ SubSeq(in[p], n + 1, Len(in[p])) \in Seq(Nat)
    BY <2>1, TakenBytes, EmptyBytes
  <2>4. PumpsOK'
    <3> DEFINE r == [pc |-> "write", data |-> Prefix(in[p], n)]
    <3>1. r \in PumpState /\ (r.pc = "write" <=> r.data # <<>>)
      BY <2>3 DEF PumpState
    <3> HIDE DEF r
    <3> QED BY <2>2, <3>1, PumpType DEF r
  <2>5. SocksOK'
    BY <1>0, <1>3, <2>1, <2>2, <2>3 DEF Read, SocksOK
  <2> QED BY <1>0, <1>3, <2>4, <2>5 DEF Read, AppsOK, appVars
<1>4. ASSUME NEW p \in Pump, ReadEnds(p) \/ Raised(p) PROVE TypeOK'
  <2>1. Finally(p) /\ UNCHANGED appVars
    BY <1>4 DEF ReadEnds, Raised
  <2> QED BY <1>0, <2>1, FinallyType DEF AppsOK, appVars
<1>5. ASSUME NEW p \in Pump, ReadRaises(p) PROVE TypeOK'
  <2>1. SocksOK'
    BY <1>0, <1>5, WriterFacts, EmptyBytes DEF ReadRaises, SocksOK
  <2>2. PumpsOK'
    BY <1>0, <1>5 DEF ReadRaises, PumpsOK, PumpState, At
  <2> QED BY <1>0, <1>5, <2>1, <2>2 DEF ReadRaises, AppsOK, appVars
<1>6. ASSUME NEW p \in Pump, Write(p) PROVE TypeOK'
  <2>1. SocksOK'
    <3>1. Writer(p) \in End /\ pump[p].data \in Seq(Nat)
      BY WriterFacts DEF TypeOK
    <3> QED BY <1>6, <3>1, DeliverType DEF Write
  <2>2. PumpsOK'
    BY <1>0, <1>6, EmptyBytes DEF Write, PumpsOK, PumpState, At
  <2> QED BY <1>0, <1>6, <2>1, <2>2 DEF Write, AppsOK, appVars
<1>7. ASSUME NEW p \in Pump, Drain(p) PROVE TypeOK'
  <2>1. PumpsOK'
    BY <1>0, <1>7 DEF Drain, PumpsOK, PumpState, At
  <2> QED BY <1>0, <1>7, <2>1 DEF Drain, SocksOK, AppsOK, sockVars, appVars
<1>8. ASSUME NEW p \in Pump, DrainRaises(p) PROVE TypeOK'
  <2>1. PumpsOK'
    BY <1>0, <1>8, EmptyBytes DEF DrainRaises, PumpsOK, PumpState, At
  <2> QED BY <1>0, <1>8, <2>1 DEF DrainRaises, SocksOK, AppsOK, sockVars, appVars
<1>9. ASSUME NEW a \in App, Send(a) PROVE TypeOK'
  <2>1. sent[a] + 1 \in 0..MaxBytes
    BY <1>9, FwdAssumption DEF TypeOK, Send
  <2>2. SocksOK'
    <3>1. <<sent[a] + 1>> \in Seq(Nat)
      BY <2>1
    <3> QED BY <1>9, <3>1, AppFacts, DeliverType DEF Send
  <2> QED BY <1>0, <1>9, <2>1, <2>2 DEF Send, PumpsOK, AppsOK, At
<1>10. ASSUME NEW a \in App, Receive(a) PROVE TypeOK'
  <2>1. a \in End /\ in[a] \in Seq(Nat) /\ in[a] # <<>>
    BY <1>10, AppFacts DEF TypeOK, Receive
  <2>2. Head(in[a]) \in Nat /\ Tail(in[a]) \in Seq(Nat)
    BY <2>1
  <2>3. Append(got[a], Head(in[a])) \in Seq(Nat)
    BY <2>2 DEF TypeOK
  <2> QED BY <1>0, <1>10, <2>1, <2>2, <2>3 DEF Receive, SocksOK, PumpsOK, AppsOK, At
<1>11. ASSUME NEW a \in App, Closed(a, 0) PROVE SocksOK'
  <2>1. 0 \in 0..Len(in[a]) /\ a \in End
    BY AppFacts DEF TypeOK
  <2> QED BY <1>11, <2>1, ClosedType
<1>12. ASSUME NEW a \in App, SeesEnd(a) PROVE TypeOK'
  BY <1>0, <1>11, <1>12 DEF SeesEnd, PumpsOK, AppsOK, At
<1>13. ASSUME NEW a \in App, Leaves(a) PROVE TypeOK'
  BY <1>0, <1>11, <1>13 DEF Leaves, PumpsOK, AppsOK, At, appVars
<1>14. ASSUME NEW f \in 1..Hops, Killed(f) PROVE TypeOK'
  <2>1. PumpsOK'
    <3>1. [pc |-> "done", data |-> <<>>] \in PumpState
      BY EmptyBytes DEF PumpState
    <3>2. \A p \in Pump : pump'[p] = [pc |-> "done", data |-> <<>>] \/ pump'[p] = pump[p]
      BY <1>14 DEF Killed
    <3>3. pump' = [p \in Pump |-> pump'[p]]
      BY <1>14 DEF Killed
    <3> QED BY <1>0, <3>1, <3>2, <3>3 DEF PumpsOK, At
  <2>2. SocksOK'
    BY <1>0, <1>14, EmptyBytes DEF Killed, SocksOK
  <2> QED BY <1>0, <1>14, <2>1, <2>2 DEF Killed, AppsOK
<1>15. CASE UNCHANGED vars
  BY <1>15 DEF vars, TypeOK, At, sockVars, appVars
<1> QED BY <1>1, <1>2, <1>3, <1>4, <1>5, <1>6, <1>7, <1>8, <1>9, <1>10, <1>12, <1>13, <1>14, <1>15
        DEF Next, Handler, PumpStep, Reads

\* Both ends of a socket are connected at a time, and have nothing before.
Paired == \A e \in End : up[e] = "none" => up[Opp(e)] = "none" /\ in[e] = <<>>

LEMMA UnstartedStep == TypeOK /\ Unstarted /\ Paired /\ [Next]_vars => Unstarted'
<1> SUFFICES ASSUME TypeOK, Unstarted, Paired, [Next]_vars PROVE Unstarted'
  OBVIOUS
<1> DEFINE Later(e) == (up[e] # "none" => up'[e] # "none") /\ (up[e] = "closed" => up'[e] = "closed")
<1>1. ASSUME \A e \in End : Later(e), NEW p \in Pump, pump[p].pc \in {"off", "done"} => pump'[p] = pump[p]
      PROVE  up'[p] = "none" \/ up'[Writer(p)] = "none"
               => At(p, "off")' \/ (At(p, "done")' /\ "closed" \in {up'[p], up'[Writer(p)]})
  BY <1>1, WriterFacts DEF Unstarted, At
<1>2. ASSUME NEW d \in End, NEW n, Closed(d, n) PROVE \A e \in End : Later(e)
  BY <1>2 DEF Closed, TypeOK
<1>3. ASSUME NEW d \in End, NEW b, Deliver(d, b) PROVE \A e \in End : Later(e)
  BY <1>3 DEF Deliver
<1>4. ASSUME NEW f \in 1..Hops, Connects(f) PROVE Unstarted'
  <2>1. /\ Far(f) \in End /\ Opp(Far(f)) \in End /\ Near(f) \in Pump /\ Near(f) \in End /\ Far(f) \in Pump
        /\ Far(f) = Writer(Near(f)) /\ Near(f) = Writer(Far(f))
    BY ForwarderFacts, WriterFacts, OppFacts
  <2>2. up'[Near(f)] # "none" /\ up'[Far(f)] # "none" /\ \A e \in End : up[e] # "none" => up'[e] # "none"
    BY <1>4, <2>1 DEF Connects, TypeOK
  <2>3. \A p \in Pump \ {Near(f), Far(f)} : pump'[p] = pump[p]
    BY <1>4, <2>1 DEF Connects, TypeOK
  <2>4. \A e \in End : Later(e)
    BY <1>4, <2>1, <2>2 DEF Connects, TypeOK, Paired
  <2>5. ASSUME NEW p \in Pump \ {Near(f), Far(f)}
        PROVE  up'[p] = "none" \/ up'[Writer(p)] = "none"
                 => At(p, "off")' \/ (At(p, "done")' /\ "closed" \in {up'[p], up'[Writer(p)]})
    BY <1>1, <2>3, <2>4
  <2> QED BY <2>1, <2>2, <2>5 DEF Unstarted
<1>5. ASSUME NEW f \in 1..Hops, ConnectFails(f) PROVE Unstarted'
  <2>1. Near(f) \in End
    BY ForwarderFacts, WriterFacts
  <2>2. pump' = pump /\ \A e \in End : Later(e)
    BY <1>2, <1>5, <2>1 DEF ConnectFails, CloseEnd
  <2> QED BY <1>1, <2>2 DEF Unstarted
<1>6. ASSUME NEW p \in Pump, PumpStep(p) PROVE Unstarted'
  <2>1. \A q \in Pump : pump[q].pc \in {"off", "done"} => pump'[q] = pump[q]
    BY <1>6 DEF PumpStep, Read, ReadEnds, Finally, ReadRaises, Write, Drain, DrainRaises, Raised, At, TypeOK
  <2>2. Writer(p) \in End /\ p \in End
    BY WriterFacts
  <2>3. \A e \in End : Later(e)
    <3>1. CASE Read(p) \/ Drain(p) \/ DrainRaises(p)
      BY <3>1 DEF Read, Drain, DrainRaises, sockVars
    <3>2. CASE ReadEnds(p) \/ Raised(p)
      BY <1>2, <2>2, <3>2 DEF ReadEnds, Raised, Finally, CloseEnd
    <3>3. CASE ReadRaises(p)
      BY <2>2, <3>3 DEF ReadRaises, TypeOK
    <3>4. CASE Write(p)
      BY <1>3, <2>2, <3>4 DEF Write
    <3> QED BY <1>6, <3>1, <3>2, <3>3, <3>4 DEF PumpStep
  <2> QED BY <1>1, <2>1, <2>3 DEF Unstarted
<1>7. ASSUME NEW a \in App, Send(a) \/ Receive(a) \/ SeesEnd(a) \/ Leaves(a) PROVE Unstarted'
  <2>1. pump' = pump /\ \A e \in End : Later(e)
    BY <1>2, <1>3, <1>7, AppFacts DEF Send, Receive, SeesEnd, Leaves
  <2> QED BY <1>1, <2>1 DEF Unstarted
<1>8. ASSUME NEW f \in 1..Hops, Killed(f) PROVE Unstarted'
  <2>1. \A e \in End : Later(e)
    BY <1>8 DEF Killed, TypeOK
  <2>2. \A q \in Pump \ {Near(f), Far(f)} : pump'[q] = pump[q]
    BY <1>8 DEF Killed
  <2>3. /\ Near(f) \in Pump /\ Far(f) \in Pump /\ Near(f) \in End /\ Far(f) \in End
        /\ Far(f) = Writer(Near(f)) /\ Near(f) = Writer(Far(f))
    BY ForwarderFacts, WriterFacts
  <2>4. /\ pump'[Near(f)].pc = "done" /\ pump'[Far(f)].pc = "done"
        /\ "closed" \in {up'[Near(f)], up'[Far(f)]}
    BY <1>8, <2>3 DEF Killed
  <2>5. ASSUME NEW q \in {Near(f), Far(f)} PROVE At(q, "done")' /\ "closed" \in {up'[q], up'[Writer(q)]}
    BY <2>3, <2>4 DEF At
  <2>6. ASSUME NEW q \in Pump
        PROVE  up'[q] = "none" \/ up'[Writer(q)] = "none"
                 => At(q, "off")' \/ (At(q, "done")' /\ "closed" \in {up'[q], up'[Writer(q)]})
    BY <1>1, <2>1, <2>2, <2>5
  <2> QED BY <2>6 DEF Unstarted
<1>9. CASE UNCHANGED vars
  BY <1>1, <1>9 DEF vars, sockVars, Unstarted
<1> QED BY <1>4, <1>5, <1>6, <1>7, <1>8, <1>9 DEF Next, Handler, Reads

\* Nothing is read of what was thrown away, and no end is connected.
Shrinks ==
  \A e \in End : /\ up'[e] # "closed" => up[e] # "closed" /\ in'[e] = in[e]
                 /\ Len(in'[e]) <= Len(in[e]) /\ \A i \in 1..Len(in'[e]) : in'[e][i] = in[e][i]
                 /\ up'[e] = "none" <=> up[e] = "none"

\* Closing an end throws away what it has not received.
LEMMA ClosedShrinks ==
  ASSUME TypeOK, NEW d \in End, NEW n \in 0..Len(in[d]), Closed(d, n)
  PROVE  Shrinks
<1> SUFFICES ASSUME NEW e \in End
             PROVE  /\ up'[e] # "closed" => up[e] # "closed" /\ in'[e] = in[e]
                    /\ Len(in'[e]) <= Len(in[e]) /\ \A i \in 1..Len(in'[e]) : in'[e][i] = in[e][i]
                    /\ up'[e] = "none" <=> up[e] = "none"
  BY DEF Shrinks
<1>0. in[e] \in Seq(Nat) /\ in[d] \in Seq(Nat) /\ Len(in[e]) \in Nat /\ up[e] \in {"none", "open", "closed"}
  BY DEF TypeOK
<1>1. CASE e # d \/ up[d] # "open"
  <2>1. up'[e] = up[e] /\ in'[e] = in[e]
    BY <1>1 DEF Closed, TypeOK
  <2> QED BY <1>0, <2>1
<1>2. CASE e = d /\ up[d] = "open"
  <2>1. up'[e] = "closed" /\ in'[e] = Prefix(in[e], n)
    BY <1>2 DEF Closed, TypeOK
  <2>2. n \in 0..Len(in[e])
    BY <1>2
  <2>5. Len(Prefix(in[e], n)) = n /\ \A i \in 1..n : Prefix(in[e], n)[i] = in[e][i]
    BY <1>0, <2>2, TakenBytes, Zenon
  <2>3. Len(in'[e]) = n /\ \A i \in 1..n : in'[e][i] = in[e][i]
    BY <2>1, <2>5
  <2>4. Len(in'[e]) <= Len(in[e])
    BY <1>0, <2>2, <2>3
  <2> QED BY <1>0, <1>2, <2>1, <2>3, <2>4
<1> QED BY <1>1, <1>2

\* A pump that ends has nothing more to write.
LEMMA FinallyShrinks ==
  ASSUME TypeOK, NEW p \in Pump, Finally(p)
  PROVE  /\ Shrinks
         /\ \A q \in Pump : q # p => pump'[q] = pump[q]
         /\ pump'[p].data = <<>> /\ pump'[p].pc = "done"
<1>1. Writer(p) \in End
  BY WriterFacts
<1> QED BY <1>1, ClosedShrinks DEF Finally, CloseEnd, TypeOK

LEMMA PairedStep == TypeOK /\ Unstarted /\ Paired /\ [Next]_vars => Paired'
<1> SUFFICES ASSUME TypeOK, Unstarted, Paired, [Next]_vars PROVE Paired'
  OBVIOUS
<1>1. ASSUME \A e \in End : (up'[e] = "none" <=> up[e] = "none") /\ (up[e] = "none" => in'[e] = in[e])
      PROVE  Paired'
  BY <1>1, OppFacts DEF Paired
<1>2. ASSUME Shrinks PROVE Paired'
  BY <1>1, <1>2 DEF Shrinks
<1>3. ASSUME NEW d \in End, NEW b \in Seq(Nat), Deliver(d, b) PROVE Paired'
  BY <1>1, <1>3, OppFacts DEF Deliver, TypeOK
<1>4. ASSUME NEW f \in 1..Hops, Connects(f) PROVE Paired'
  <2>1. Far(f) \in End /\ Opp(Far(f)) \in End /\ Opp(Opp(Far(f))) = Far(f)
    BY ForwarderFacts, WriterFacts, OppFacts
  <2>2. /\ in' = in
        /\ \A e \in End : up'[e] = IF e \in {Far(f), Opp(Far(f))} THEN "open" ELSE up[e]
    BY <1>4, <2>1 DEF Connects, TypeOK
  <2>3. \A e \in End : Opp(e) = Far(f) \/ Opp(e) = Opp(Far(f)) <=> e \in {Far(f), Opp(Far(f))}
    BY <2>1, OppFacts
  <2> QED BY <2>1, <2>2, <2>3, OppFacts DEF Paired
<1>5. ASSUME NEW f \in 1..Hops, ConnectFails(f) PROVE Paired'
  BY <1>2, <1>5, ForwarderFacts, WriterFacts, ClosedShrinks DEF ConnectFails, CloseEnd
<1>6. ASSUME NEW p \in Pump, Read(p) PROVE Paired'
  BY <1>1, <1>6, EmptyBytes, WriterFacts DEF Read, Paired, TypeOK
<1>7. ASSUME NEW p \in Pump, ReadEnds(p) \/ Raised(p) PROVE Paired'
  BY <1>2, <1>7, FinallyShrinks DEF ReadEnds, Raised
<1>8. ASSUME NEW p \in Pump, ReadRaises(p) PROVE Paired'
  <2>1. p \in End /\ up[p] # "none"
    BY <1>8, WriterFacts DEF ReadRaises, At, Unstarted
  <2> QED BY <1>1, <1>8, <2>1 DEF ReadRaises, TypeOK
<1>9. ASSUME NEW p \in Pump, Write(p) PROVE Paired'
  BY <1>3, <1>9, WriterFacts DEF Write, TypeOK
<1>10. ASSUME NEW p \in Pump, Drain(p) \/ DrainRaises(p) PROVE Paired'
  BY <1>1, <1>10 DEF Drain, DrainRaises, sockVars
<1>11. ASSUME NEW a \in App, Send(a) PROVE Paired'
  <2>1. <<sent[a] + 1>> \in Seq(Nat)
    BY FwdAssumption DEF TypeOK
  <2> QED BY <1>3, <1>11, <2>1, AppFacts DEF Send
<1>12. ASSUME NEW a \in App, Receive(a) PROVE Paired'
  BY <1>1, <1>12, AppFacts DEF Receive, TypeOK
<1>13. ASSUME NEW a \in App, SeesEnd(a) \/ Leaves(a) PROVE Paired'
  <2>1. 0 \in 0..Len(in[a]) /\ a \in End
    BY AppFacts DEF TypeOK
  <2> QED BY <1>2, <1>13, <2>1, ClosedShrinks DEF SeesEnd, Leaves
<1>14. ASSUME NEW f \in 1..Hops, Killed(f) PROVE Paired'
  BY <1>1, <1>14 DEF Killed, Paired
<1>15. CASE UNCHANGED vars
  BY <1>1, <1>15 DEF vars, sockVars
<1> QED BY <1>4, <1>5, <1>6, <1>7, <1>8, <1>9, <1>10, <1>11, <1>12, <1>13, <1>14, <1>15
        DEF Next, Handler, PumpStep, Reads

TypeInv == TypeOK /\ Unstarted /\ Paired

LEMMA TypeInvariant == Spec => []TypeInv
<1>1. Init => TypeInv
  <2>1. Init => Unstarted
    BY DEF Init, Unstarted, At
  <2>2. Init => Paired
    BY OppFacts, EndPairs DEF Init, Paired, Opp
  <2> QED BY <2>1, <2>2, InitType DEF TypeInv
<1>2. TypeInv /\ [Next]_vars => TypeInv'
  BY TypeStep, UnstartedStep, PairedStep DEF TypeInv
<1> QED BY <1>1, <1>2, PTL DEF Spec

\* Every variable has its type, and a pump holds data between its read and its
\* write and at no other time (pump).
THEOREM TypeCorrect == Spec => []TypeOK
  BY TypeInvariant, PTL DEF TypeInv

-----------------------------------------------------------------------------
(* The order of the bytes.                                                 *)

\* Where the bytes that arrive at an end come from.
Source(e) == IF e[2] = "s" THEN client ELSE node

\* The end at which the data of a pump arrives.
Onward(p) == Opp(Writer(p))

\* The bytes of a stream are numbered.  An end from which cnt bytes were taken
\* holds the ones that follow, a pump the last ones it took, and the client or
\* the node has got them all.
Numbered(cnt) ==
  /\ \A e \in End : \A i \in 1..Len(in[e]) : in[e][i] = cnt[e] + i
  /\ \A p \in Pump :
       /\ Len(pump[p].data) <= cnt[p]
       /\ \A i \in 1..Len(pump[p].data) : pump[p].data[i] = cnt[p] - Len(pump[p].data) + i
  /\ \A a \in App : Len(got[a]) = cnt[a] /\ \A i \in 1..Len(got[a]) : got[a][i] = i

\* Nothing arrives that was not sent.
Sent(cnt) == \A e \in End : cnt[e] + Len(in[e]) <= sent[Source(e)]

\* A pump that has not ended still writes.
Writes(p) == pump[p].pc \notin {"raised", "done"}

\* An end that is not closed has all that was written to the other one.
Arrived(cnt) ==
  /\ \A a \in App : up[Opp(a)] # "closed" => cnt[Opp(a)] + Len(in[Opp(a)]) = sent[a]
  /\ \A p \in Pump : up[Onward(p)] # "closed" /\ Writes(p)
                       => cnt[Onward(p)] + Len(in[Onward(p)]) = cnt[p] - Len(pump[p].data)

StreamInv(cnt) == Numbered(cnt) /\ Sent(cnt) /\ Arrived(cnt)

OrderInv == \E cnt \in [End -> Nat] : StreamInv(cnt)

\* Every end but the client's and the node's neighbours is fed by one pump.
LEMMA OnwardFacts ==
  ASSUME NEW p \in Pump
  PROVE  /\ Onward(p) \in End /\ Onward(p) # p /\ Opp(Onward(p)) = Writer(p)
         /\ Source(Onward(p)) = Source(p)
         /\ \A q \in Pump : Onward(q) = Onward(p) => q = p
         /\ \A a \in App : Opp(a) # Onward(p)
<1>1. Writer(p) \in Pump /\ Writer(p) \in End /\ p \in End
  BY WriterFacts
<1>2. Onward(p) \in End /\ Opp(Onward(p)) = Writer(p)
  BY <1>1, OppFacts DEF Onward
<1>3. PICK k \in 1..(Hops + 1) : p = <<k, "c">> \/ p = <<k, "s">>
  BY <1>1, EndPairs
<1>4. Onward(p) # p /\ Source(Onward(p)) = Source(p)
  BY <1>3 DEF Onward, Opp, Writer, Source
<1>5. ASSUME NEW q \in Pump, Onward(q) = Onward(p) PROVE q = p
  BY <1>1, <1>2, <1>5, WriterFacts, OppFacts DEF Onward
<1>6. ASSUME NEW a \in App PROVE Opp(a) # Onward(p)
  BY <1>1, <1>2, AppFacts, OppFacts
<1> QED BY <1>2, <1>4, <1>5, <1>6

LEMMA SourceFacts ==
  ASSUME NEW e \in End
  PROVE  /\ Source(e) \in App
         /\ \A a \in App : Source(Opp(a)) = a
  BY EndPairs DEF Source, App, Opp, client, node

\* Whatever is thrown away, by a close, an error or a death, nobody reads after.
LEMMA ShrinkKeepsStream ==
  ASSUME TypeOK, TypeOK', NEW cnt \in [End -> Nat], StreamInv(cnt), UNCHANGED <<sent, got>>,
         \A e \in End : up'[e] # "closed" => up[e] # "closed" /\ in'[e] = in[e],
         \A e \in End : Len(in'[e]) <= Len(in[e]) /\ \A i \in 1..Len(in'[e]) : in'[e][i] = in[e][i],
         \A p \in Pump : \/ pump'[p].data = pump[p].data /\ (Writes(p)' => Writes(p))
                         \/ pump'[p].data = <<>> /\ ~Writes(p)'
  PROVE  StreamInv(cnt)'
<1>0. /\ \A e \in End : Len(in[e]) \in Nat /\ Len(in'[e]) \in Nat /\ cnt[e] \in Nat
      /\ \A p \in Pump : p \in End /\ Len(pump[p].data) \in Nat
      /\ \A a \in App : sent[a] \in Nat
  BY WriterFacts, FwdAssumption DEF TypeOK
<1>1. Numbered(cnt)'
  <2>1. \A e \in End : \A i \in 1..Len(in'[e]) : in'[e][i] = cnt[e] + i
    BY <1>0 DEF StreamInv, Numbered
  <2>2. ASSUME NEW p \in Pump
        PROVE  /\ Len(pump'[p].data) <= cnt[p]
               /\ \A i \in 1..Len(pump'[p].data) : pump'[p].data[i] = cnt[p] - Len(pump'[p].data) + i
    BY <1>0, <2>2 DEF StreamInv, Numbered
  <2> QED BY <2>1, <2>2 DEF StreamInv, Numbered
<1>2. Sent(cnt)'
  <2> SUFFICES ASSUME NEW e \in End PROVE cnt[e] + Len(in'[e]) <= sent[Source(e)]
    BY DEF Sent, Source
  <2> QED BY <1>0, SourceFacts DEF StreamInv, Sent
<1>3. Arrived(cnt)'
  <2>1. ASSUME NEW a \in App, up'[Opp(a)] # "closed" PROVE cnt[Opp(a)] + Len(in'[Opp(a)]) = sent[a]
    BY <2>1, AppFacts, WriterFacts DEF StreamInv, Arrived
  <2>2. ASSUME NEW p \in Pump, up'[Onward(p)] # "closed", Writes(p)'
        PROVE  cnt[Onward(p)] + Len(in'[Onward(p)]) = cnt[p] - Len(pump'[p].data)
    BY <2>2, OnwardFacts DEF StreamInv, Arrived
  <2> QED BY <2>1, <2>2 DEF Arrived
<1> QED BY <1>1, <1>2, <1>3 DEF StreamInv

\* What has arrived at an end, taken from it or not, and what a pump has written.
Total(c, e) == c[e] + Len(in[e])

Written(c, p) == c[p] - Len(pump[p].data)

\* Bytes a pump has read follow the ones it read before.
LEMMA ReadKeepsStream ==
  ASSUME TypeOK, TypeOK', NEW cnt \in [End -> Nat], StreamInv(cnt), NEW p \in Pump, Read(p)
  PROVE  \E c \in [End -> Nat] : /\ StreamInv(c)'
                                 /\ \A e \in End : Total(c, e)' = Total(cnt, e)
                                 /\ \A q \in Pump : Written(c, q)' = Written(cnt, q)
<1>0. /\ \A e \in End : in[e] \in Seq(Nat) /\ Len(in[e]) \in Nat /\ Len(in'[e]) \in Nat /\ cnt[e] \in Nat
      /\ \A q \in Pump : q \in End /\ Len(pump[q].data) \in Nat
      /\ \A a \in App : a \in End /\ a # p /\ sent[a] \in Nat
  BY WriterFacts, AppFacts, FwdAssumption DEF TypeOK
<1>1. PICK n \in 1..Len(in[p]) :
        /\ pump' = [pump EXCEPT ![p] = [pc |-> "write", data |-> Prefix(in[p], n)]]
        /\ in' = [in EXCEPT ![p] = SubSeq(@, n + 1, Len(@))]
  BY DEF Read
<1> DEFINE c == [cnt EXCEPT ![p] = @ + n]
<1>2. c \in [End -> Nat] /\ c[p] = cnt[p] + n /\ \A e \in End \ {p} : c[e] = cnt[e] /\ in'[e] = in[e]
  BY <1>0, <1>1 DEF TypeOK
<1>3. /\ Len(in'[p]) = Len(in[p]) - n /\ \A i \in 1..Len(in'[p]) : in'[p][i] = in[p][n + i]
      /\ pump'[p].pc = "write" /\ Len(pump'[p].data) = n /\ \A i \in 1..n : pump'[p].data[i] = in[p][i]
  <2>1. p \in End /\ in[p] \in Seq(Nat) /\ n \in 0..Len(in[p])
    BY <1>0
  <2>2. in'[p] = SubSeq(in[p], n + 1, Len(in[p]))
    BY <1>1, <2>1 DEF TypeOK
  <2>3. pump'[p].pc = "write" /\ pump'[p].data = Prefix(in[p], n)
    BY <1>1 DEF TypeOK
  <2>4. Len(in'[p]) = Len(in[p]) - n /\ \A i \in 1..(Len(in[p]) - n) : in'[p][i] = in[p][n + i]
    BY <2>1, <2>2, TakenBytes
  <2>5. Len(pump'[p].data) = n /\ \A i \in 1..n : pump'[p].data[i] = in[p][i]
    BY <2>1, <2>3, TakenBytes
  <2> QED BY <2>3, <2>4, <2>5
<1>4. /\ \A q \in Pump \ {p} : pump'[q] = pump[q]
      /\ Len(pump[p].data) = 0 /\ Writes(p) /\ UNCHANGED <<up, sent, got>>
  BY <1>1, EmptyBytes DEF TypeOK, Read, At, Writes, appVars
<1> HIDE DEF c
<1>5. \A e \in End : c[e] + Len(in'[e]) = cnt[e] + Len(in[e])
  <2>1. c[p] + Len(in'[p]) = cnt[p] + Len(in[p])
    <3>1. p \in End /\ Len(in[p]) \in Nat /\ cnt[p] \in Nat /\ n \in Nat
      BY <1>0
    <3> QED BY <1>2, <1>3, <3>1
  <2> QED BY <1>2, <2>1
<1>6. Numbered(c)'
  <2>1. ASSUME NEW e \in End, NEW i \in 1..Len(in'[e]) PROVE in'[e][i] = c[e] + i
    <3>1. CASE e = p
      <4>0. p \in End /\ Len(in[p]) \in Nat /\ cnt[p] \in Nat /\ n \in Nat /\ i \in Nat
        BY <1>0
      <4>1. n + i \in 1..Len(in[p]) /\ in'[p][i] = in[p][n + i]
        <5>1. i \in 1..Len(in'[p]) /\ Len(in'[p]) = Len(in[p]) - n
          BY <1>3, <2>1, <3>1
        <5>2. n + i \in 1..Len(in[p])
          BY <4>0, <5>1
        <5> QED BY <1>3, <5>1, <5>2
      <4>2. in[p][n + i] = cnt[p] + (n + i)
        BY <4>0, <4>1 DEF StreamInv, Numbered
      <4> QED BY <1>2, <3>1, <4>0, <4>1, <4>2
    <3>2. CASE e # p
      <4>1. c[e] = cnt[e] /\ in'[e] = in[e]
        BY <1>2, <3>2
      <4> QED BY <2>1, <4>1 DEF StreamInv, Numbered
    <3> QED BY <3>1, <3>2
  <2>2. ASSUME NEW q \in Pump
        PROVE  /\ Len(pump'[q].data) <= c[q]
               /\ \A i \in 1..Len(pump'[q].data) : pump'[q].data[i] = c[q] - Len(pump'[q].data) + i
    <3>1. CASE q = p
      <4>0. p \in End /\ Len(in[p]) \in Nat /\ cnt[p] \in Nat /\ n \in Nat /\ n <= Len(in[p])
        BY <1>0
      <4>1. ASSUME NEW i \in 1..n PROVE pump'[p].data[i] = cnt[p] + i
        <5>1. i \in 1..Len(in[p])
          BY <4>0
        <5> QED BY <1>3, <4>0, <5>1 DEF StreamInv, Numbered
      <4>2. Len(pump'[p].data) = n /\ c[p] - n = cnt[p] /\ n <= c[p]
        <5>1. Len(pump'[p].data) = n /\ c[p] = cnt[p] + n
          BY <1>2, <1>3
        <5> QED BY <4>0, <5>1
      <4> QED BY <3>1, <4>1, <4>2
    <3>2. CASE q # p
      <4>1. c[q] = cnt[q] /\ pump'[q] = pump[q]
        BY <1>0, <1>2, <1>4, <3>2
      <4> QED BY <4>1 DEF StreamInv, Numbered
    <3> QED BY <3>1, <3>2
  <2>3. \A a \in App : Len(got'[a]) = c[a] /\ \A i \in 1..Len(got'[a]) : got'[a][i] = i
    BY <1>0, <1>2, <1>4 DEF StreamInv, Numbered
  <2> QED BY <2>1, <2>2, <2>3 DEF Numbered
<1>7. Sent(c)'
  <2> SUFFICES ASSUME NEW e \in End PROVE c[e] + Len(in'[e]) <= sent'[Source(e)]
    BY DEF Sent, Source
  <2> QED BY <1>4, <1>5 DEF StreamInv, Sent
<1>9. ASSUME NEW q \in Pump PROVE c[q] - Len(pump'[q].data) = cnt[q] - Len(pump[q].data)
  <2>1. CASE q = p
    BY <1>0, <1>2, <1>3, <1>4, <2>1
  <2>2. CASE q # p
    BY <1>0, <1>2, <1>4, <2>2
  <2> QED BY <2>1, <2>2
<1>8. Arrived(c)'
  <2>1. ASSUME NEW a \in App, up'[Opp(a)] # "closed" PROVE c[Opp(a)] + Len(in'[Opp(a)]) = sent'[a]
    BY <1>4, <1>5, <2>1, AppFacts, WriterFacts DEF StreamInv, Arrived
  <2>2. ASSUME NEW q \in Pump, up'[Onward(q)] # "closed", Writes(q)'
        PROVE  c[Onward(q)] + Len(in'[Onward(q)]) = c[q] - Len(pump'[q].data)
    <3>1. /\ Onward(q) \in End /\ c[Onward(q)] + Len(in'[Onward(q)]) = cnt[Onward(q)] + Len(in[Onward(q)])
          /\ Writes(q)
      BY <1>4, <1>5, <2>2, OnwardFacts DEF Writes
    <3>2. cnt[Onward(q)] + Len(in[Onward(q)]) = cnt[q] - Len(pump[q].data)
      BY <1>4, <2>2, <3>1 DEF StreamInv, Arrived
    <3> QED BY <1>9, <3>1, <3>2
  <2> QED BY <2>1, <2>2 DEF Arrived
<1> QED BY <1>2, <1>5, <1>6, <1>7, <1>8, <1>9 DEF StreamInv, Total, Written

\* The client, or the node, takes the next byte.
LEMMA ReceiveKeepsStream ==
  ASSUME TypeOK, TypeOK', NEW cnt \in [End -> Nat], StreamInv(cnt), NEW b \in App, Receive(b)
  PROVE  \E c \in [End -> Nat] : /\ StreamInv(c)'
                                 /\ \A e \in End : Total(c, e)' = Total(cnt, e)
                                 /\ \A q \in Pump : Written(c, q)' = Written(cnt, q)
<1>0. /\ \A e \in End : in[e] \in Seq(Nat) /\ Len(in[e]) \in Nat /\ Len(in'[e]) \in Nat /\ cnt[e] \in Nat
      /\ \A q \in Pump : q \in End /\ q # b /\ Len(pump[q].data) \in Nat
      /\ \A a \in App : a \in End /\ sent[a] \in Nat /\ got[a] \in Seq(Nat)
  BY WriterFacts, AppFacts, FwdAssumption DEF TypeOK
<1>1. /\ in[b] # <<>> /\ got' = [got EXCEPT ![b] = Append(@, Head(in[b]))]
      /\ in' = [in EXCEPT ![b] = Tail(@)] /\ UNCHANGED <<up, pump, sent>>
  BY DEF Receive
<1> DEFINE c == [cnt EXCEPT ![b] = @ + 1]
<1>2. c \in [End -> Nat] /\ c[b] = cnt[b] + 1 /\ \A e \in End \ {b} : c[e] = cnt[e] /\ in'[e] = in[e]
  BY <1>0, <1>1 DEF TypeOK
<1>3. /\ Len(in[b]) >= 1 /\ Len(in'[b]) = Len(in[b]) - 1
      /\ \A i \in 1..Len(in'[b]) : in'[b][i] = in[b][i + 1]
  BY <1>0, <1>1 DEF TypeOK
<1>4. Head(in[b]) = cnt[b] + 1
  BY <1>0, <1>1, <1>3 DEF StreamInv, Numbered
<1>5. /\ Len(got'[b]) = Len(got[b]) + 1 /\ got'[b][Len(got[b]) + 1] = cnt[b] + 1
      /\ \A i \in 1..Len(got[b]) : got'[b][i] = got[b][i]
      /\ \A a \in App \ {b} : got'[a] = got[a]
  BY <1>0, <1>1, <1>4 DEF TypeOK
<1> HIDE DEF c
<1>6. \A e \in End : c[e] + Len(in'[e]) = cnt[e] + Len(in[e])
  <2>1. c[b] + Len(in'[b]) = cnt[b] + Len(in[b])
    <3>1. Len(in[b]) \in Nat /\ cnt[b] \in Nat
      BY <1>0
    <3>2. c[b] = cnt[b] + 1 /\ Len(in'[b]) = Len(in[b]) - 1
      BY <1>2, <1>3
    <3> QED BY <3>1, <3>2
  <2> QED BY <1>2, <2>1
<1>7. Numbered(c)'
  <2>1. ASSUME NEW e \in End, NEW i \in 1..Len(in'[e]) PROVE in'[e][i] = c[e] + i
    <3>1. CASE e = b
      <4>0. b \in End /\ Len(in[b]) \in Nat /\ cnt[b] \in Nat /\ i \in Nat
        BY <1>0
      <4>1. i + 1 \in 1..Len(in[b]) /\ in'[b][i] = in[b][i + 1]
        BY <1>3, <2>1, <3>1, <4>0
      <4>2. in[b][i + 1] = cnt[b] + (i + 1)
        BY <4>0, <4>1 DEF StreamInv, Numbered
      <4> QED BY <1>2, <3>1, <4>0, <4>1, <4>2
    <3>2. CASE e # b
      BY <1>2, <3>2 DEF StreamInv, Numbered
    <3> QED BY <3>1, <3>2
  <2>2. \A q \in Pump : pump'[q] = pump[q] /\ c[q] = cnt[q]
    BY <1>0, <1>1, <1>2
  <2>3. ASSUME NEW a \in App PROVE Len(got'[a]) = c[a] /\ \A i \in 1..Len(got'[a]) : got'[a][i] = i
    <3>1. CASE a = b
      <4>1. Len(got[b]) = cnt[b] /\ \A i \in 1..Len(got[b]) : got[b][i] = i
        BY DEF StreamInv, Numbered
      <4>2. cnt[b] \in Nat /\ c[b] = cnt[b] + 1
        BY <1>0, <1>2
      <4>3. Len(got'[b]) = c[b]
        BY <1>5, <4>1, <4>2
      <4>4. ASSUME NEW i \in 1..(cnt[b] + 1) PROVE got'[b][i] = i
        BY <1>5, <4>1, <4>2
      <4> QED BY <3>1, <4>2, <4>3, <4>4
    <3>2. CASE a # b
      BY <1>0, <1>2, <1>5, <3>2 DEF StreamInv, Numbered
    <3> QED BY <3>1, <3>2
  <2> QED BY <2>1, <2>2, <2>3 DEF StreamInv, Numbered
<1>8. Sent(c)'
  <2> SUFFICES ASSUME NEW e \in End PROVE c[e] + Len(in'[e]) <= sent'[Source(e)]
    BY DEF Sent, Source
  <2> QED BY <1>1, <1>6 DEF StreamInv, Sent
<1>9. Arrived(c)'
  <2>1. ASSUME NEW a \in App, up'[Opp(a)] # "closed" PROVE c[Opp(a)] + Len(in'[Opp(a)]) = sent'[a]
    BY <1>1, <1>6, <2>1, AppFacts, WriterFacts DEF StreamInv, Arrived
  <2>2. ASSUME NEW q \in Pump, up'[Onward(q)] # "closed", Writes(q)'
        PROVE  c[Onward(q)] + Len(in'[Onward(q)]) = c[q] - Len(pump'[q].data)
    <3>1. Onward(q) \in End /\ c[Onward(q)] + Len(in'[Onward(q)]) = cnt[Onward(q)] + Len(in[Onward(q)])
      BY <1>6, OnwardFacts
    <3>2. cnt[Onward(q)] + Len(in[Onward(q)]) = cnt[q] - Len(pump[q].data)
      BY <1>1, <2>2 DEF StreamInv, Arrived, Writes
    <3> QED BY <1>0, <1>1, <1>2, <3>1, <3>2
  <2> QED BY <2>1, <2>2 DEF Arrived
<1>10. \A q \in Pump : c[q] - Len(pump'[q].data) = cnt[q] - Len(pump[q].data)
  BY <1>0, <1>1, <1>2
<1> QED BY <1>2, <1>6, <1>7, <1>8, <1>9, <1>10 DEF StreamInv, Total, Written

\* A pump writes what it has read last, behind what it wrote before.
LEMMA WriteKeepsStream ==
  ASSUME TypeOK, TypeOK', Paired, NEW cnt \in [End -> Nat], StreamInv(cnt), NEW p \in Pump, Write(p)
  PROVE  StreamInv(cnt)'
<1> DEFINE o == Onward(p)
           data == pump[p].data
<1>0. /\ \A e \in End : in[e] \in Seq(Nat) /\ Len(in[e]) \in Nat /\ Len(in'[e]) \in Nat /\ cnt[e] \in Nat
      /\ \A q \in Pump : q \in End /\ pump[q].data \in Seq(Nat) /\ Len(pump[q].data) \in Nat
      /\ \A a \in App : sent[a] \in Nat
  BY WriterFacts, FwdAssumption DEF TypeOK
<1>1. /\ o \in End /\ Source(o) = Source(p) /\ \A q \in Pump : Onward(q) = o => q = p
      /\ \A a \in App : Opp(a) # o
  BY OnwardFacts
<1>2. /\ UNCHANGED <<up, sent, got>> /\ Writes(p) /\ Writes(p)'
      /\ pump'[p].data = <<>> /\ Len(pump'[p].data) = 0
      /\ \A q \in Pump \ {p} : pump'[q] = pump[q]
  BY EmptyBytes DEF TypeOK, Write, Deliver, At, Writes, appVars
<1>3. Deliver(Writer(p), data) /\ up[Writer(p)] = "open" /\ Opp(Writer(p)) = o
  BY DEF Write, Onward
<1>4. up[o] # "none"
  BY <1>1, <1>3, OnwardFacts, WriterFacts, OppFacts DEF Paired
<1>5. \A e \in End : e # o => in'[e] = in[e]
  BY <1>1, <1>3 DEF Deliver, TypeOK
<1>6. up[o] # "open" => in'[o] = in[o]
  BY <1>3 DEF Deliver
<1>7. up[o] = "open" => in'[o] = in[o] \o data
  BY <1>1, <1>3 DEF Deliver, TypeOK
<1>8. up[o] # "closed" => up[o] = "open" /\ cnt[o] + Len(in[o]) = cnt[p] - Len(data)
  <2>1. up[o] # "closed" => up[o] = "open"
    BY <1>1, <1>4 DEF TypeOK
  <2> QED BY <1>2, <2>1 DEF StreamInv, Arrived
<1> HIDE DEF o, data
<1>12. Len(in[o]) \in Nat /\ Len(data) \in Nat /\ cnt[o] \in Nat /\ cnt[p] \in Nat
  BY <1>0, <1>1 DEF data
<1>13. up[o] = "open" => Len(in'[o]) = Len(in[o]) + Len(data)
  <2>1. in[o] \in Seq(Nat) /\ data \in Seq(Nat)
    BY <1>0, <1>1 DEF data
  <2> QED BY <1>7, <2>1, JoinedBytes
<1>14. up[o] = "open" => cnt[o] + Len(in'[o]) = cnt[p]
  <2>1. ASSUME up[o] = "open" PROVE cnt[o] + Len(in'[o]) = cnt[p]
    <3>1. up[o] # "closed" /\ cnt[o] + Len(in[o]) = cnt[p] - Len(data) /\ Len(in'[o]) = Len(in[o]) + Len(data)
      BY <1>8, <1>13, <2>1
    <3>2. cnt[o] + (Len(in[o]) + Len(data)) = cnt[p]
      BY <1>12, <3>1, SMTT(30)
    <3> QED BY <3>1, <3>2, Zenon
  <2> QED BY <2>1
<1>9. Numbered(cnt)'
  <2>1. ASSUME NEW i \in 1..Len(in'[o]), up[o] = "open" PROVE in'[o][i] = cnt[o] + i
    <3>1. in[o] \in Seq(Nat) /\ data \in Seq(Nat)
      BY <1>0, <1>1 DEF data
    <3>2. CASE i <= Len(in[o])
      <4>1. i \in 1..Len(in[o]) /\ in'[o][i] = in[o][i]
        BY <1>0, <1>1, <1>7, <2>1, <3>1, <3>2, JoinedBytes
      <4> QED BY <1>1, <4>1 DEF StreamInv, Numbered
    <3>3. CASE i > Len(in[o])
      <4>1. PICK j \in 1..Len(data) : i = Len(in[o]) + j
        <5>1. i - Len(in[o]) \in 1..Len(data) /\ i = Len(in[o]) + (i - Len(in[o]))
          BY <1>0, <1>1, <1>7, <2>1, <3>1, <3>3, JoinedBytes
        <5> QED BY <5>1
      <4>2. in'[o][i] = data[j]
        BY <1>7, <2>1, <3>1, <4>1, JoinedBytes
      <4>3. data[j] = cnt[p] - Len(data) + j
        BY DEF StreamInv, Numbered, data
      <4> QED BY <1>0, <1>1, <1>8, <2>1, <4>1, <4>2, <4>3 DEF data
    <3> QED BY <1>0, <1>1, <3>2, <3>3
  <2>2. ASSUME NEW e \in End, NEW i \in 1..Len(in'[e]) PROVE in'[e][i] = cnt[e] + i
    BY <1>5, <1>6, <2>1, <2>2 DEF StreamInv, Numbered
  <2>3. ASSUME NEW q \in Pump
        PROVE  /\ Len(pump'[q].data) <= cnt[q]
               /\ \A i \in 1..Len(pump'[q].data) : pump'[q].data[i] = cnt[q] - Len(pump'[q].data) + i
    <3>1. CASE q = p
      BY <1>0, <1>2, <3>1
    <3>2. CASE q # p
      BY <1>2, <3>2 DEF StreamInv, Numbered
    <3> QED BY <3>1, <3>2
  <2> QED BY <1>2, <2>2, <2>3 DEF StreamInv, Numbered
<1>10. Sent(cnt)'
  <2> SUFFICES ASSUME NEW e \in End PROVE cnt[e] + Len(in'[e]) <= sent'[Source(e)]
    BY DEF Sent, Source
  <2>1. CASE in'[e] = in[e]
    BY <1>2, <2>1 DEF StreamInv, Sent
  <2>2. CASE e = o /\ up[o] = "open"
    <3>2. cnt[o] + Len(in'[o]) = cnt[p]
      BY <1>14, <2>2
    <3>3. cnt[p] + Len(in[p]) <= sent[Source(p)] /\ sent[Source(p)] \in Nat
      BY <1>0, SourceFacts DEF StreamInv, Sent
    <3> QED BY <1>0, <1>1, <1>2, <2>2, <3>2, <3>3
  <2> QED BY <1>5, <1>6, <2>1, <2>2
<1>11. Arrived(cnt)'
  <2>1. ASSUME NEW a \in App, up'[Opp(a)] # "closed" PROVE cnt[Opp(a)] + Len(in'[Opp(a)]) = sent'[a]
    BY <1>1, <1>2, <1>5, <2>1, AppFacts, WriterFacts DEF StreamInv, Arrived
  <2>2. ASSUME NEW q \in Pump, up'[Onward(q)] # "closed", Writes(q)'
        PROVE  cnt[Onward(q)] + Len(in'[Onward(q)]) = cnt[q] - Len(pump'[q].data)
    <3>1. CASE q = p
      <4>1. up[o] = "open" /\ Onward(q) = o
        BY <1>2, <1>8, <2>2, <3>1 DEF o
      <4>2. cnt[o] + Len(in'[o]) = cnt[p] - 0
        BY <1>12, <1>14, <4>1
      <4> QED BY <1>2, <3>1, <4>1, <4>2
    <3>2. CASE q # p
      <4>1. Onward(q) # o /\ Onward(q) \in End
        BY <1>1, <3>2, OnwardFacts
      <4> QED BY <1>2, <1>5, <2>2, <3>2, <4>1 DEF StreamInv, Arrived, Writes
    <3> QED BY <3>1, <3>2
  <2> QED BY <2>1, <2>2 DEF Arrived
<1> QED BY <1>9, <1>10, <1>11 DEF StreamInv

\* The client, or the node, sends the next byte.
LEMMA SendKeepsStream ==
  ASSUME TypeOK, TypeOK', Paired, NEW cnt \in [End -> Nat], StreamInv(cnt), NEW b \in App, Send(b)
  PROVE  StreamInv(cnt)'
<1> DEFINE o == Opp(b)
           x == sent[b] + 1
<1>0. /\ \A e \in End : in[e] \in Seq(Nat) /\ Len(in[e]) \in Nat /\ Len(in'[e]) \in Nat /\ cnt[e] \in Nat
      /\ \A a \in App : sent[a] \in Nat /\ sent'[a] \in Nat
  BY FwdAssumption DEF TypeOK
<1>1. o \in End /\ Source(o) = b /\ (\A q \in Pump : Onward(q) # o) /\ b \in End
  BY AppFacts, WriterFacts, SourceFacts, OnwardFacts
<1>2. /\ UNCHANGED <<up, pump, got>> /\ sent'[b] = x /\ (\A a \in App \ {b} : sent'[a] = sent[a])
  BY DEF TypeOK, Send, Deliver
<1>3. Deliver(b, <<x>>) /\ up[b] = "open"
  BY DEF Send
<1>4. up[o] # "none"
  BY <1>1, <1>3, OppFacts DEF Paired
<1>5. \A e \in End : e # o => in'[e] = in[e]
  BY <1>1, <1>3 DEF Deliver, TypeOK
<1>6. up[o] # "open" => in'[o] = in[o]
  BY <1>3 DEF Deliver
<1>7. up[o] = "open" => /\ Len(in'[o]) = Len(in[o]) + 1 /\ in'[o][Len(in[o]) + 1] = x
                        /\ \A i \in 1..Len(in[o]) : in'[o][i] = in[o][i]
  <2>1. up[o] = "open" => in'[o] = in[o] \o <<x>>
    BY <1>1, <1>3 DEF Deliver, TypeOK
  <2>2. in[o] \in Seq(Nat) /\ <<x>> \in Seq(Nat) /\ Len(<<x>>) = 1 /\ <<x>>[1] = x
    BY <1>0, <1>1
  <2> HIDE DEF x, o
  <2> QED BY <2>1, <2>2, JoinedBytes
<1>8. up[o] # "closed" => up[o] = "open" /\ cnt[o] + Len(in[o]) = sent[b]
  <2>1. up[o] # "closed" => up[o] = "open"
    BY <1>1, <1>4 DEF TypeOK
  <2> QED BY <2>1 DEF StreamInv, Arrived
<1>9. Numbered(cnt)'
  <2>1. ASSUME NEW e \in End, NEW i \in 1..Len(in'[e]) PROVE in'[e][i] = cnt[e] + i
    <3>1. CASE e = o /\ up[o] = "open"
      <4>0. Len(in[o]) \in Nat /\ cnt[o] \in Nat /\ sent[b] \in Nat
        BY <1>0, <1>1
      <4>1. CASE i = Len(in[o]) + 1
        BY <1>7, <1>8, <3>1, <4>0, <4>1
      <4>2. CASE i \in 1..Len(in[o])
        BY <1>1, <1>7, <3>1, <4>2 DEF StreamInv, Numbered
      <4> QED BY <1>7, <2>1, <3>1, <4>0, <4>1, <4>2
    <3>2. CASE in'[e] = in[e]
      BY <2>1, <3>2 DEF StreamInv, Numbered
    <3> QED BY <1>5, <1>6, <3>1, <3>2
  <2> QED BY <1>2, <2>1 DEF StreamInv, Numbered
<1>10. Sent(cnt)'
  <2> SUFFICES ASSUME NEW e \in End PROVE cnt[e] + Len(in'[e]) <= sent'[Source(e)]
    BY DEF Sent, Source
  <2>1. Source(e) \in App /\ sent[Source(e)] <= sent'[Source(e)] /\ cnt[e] + Len(in[e]) <= sent[Source(e)]
    BY <1>0, <1>2, SourceFacts DEF StreamInv, Sent
  <2>2. CASE e = o /\ up[o] = "open"
    BY <1>0, <1>1, <1>2, <1>7, <1>8, <2>2
  <2>3. CASE in'[e] = in[e]
    BY <1>0, <2>1, <2>3
  <2> QED BY <1>5, <1>6, <2>2, <2>3
<1>11. Arrived(cnt)'
  <2>1. ASSUME NEW a \in App, up'[Opp(a)] # "closed" PROVE cnt[Opp(a)] + Len(in'[Opp(a)]) = sent'[a]
    <3>1. CASE a = b
      BY <1>0, <1>1, <1>2, <1>7, <1>8, <2>1, <3>1
    <3>2. CASE a # b
      <4>1. Opp(a) # o /\ Opp(a) \in End
        BY <1>1, <3>2, AppFacts, OppFacts
      <4> QED BY <1>2, <1>5, <2>1, <3>2, <4>1 DEF StreamInv, Arrived
    <3> QED BY <3>1, <3>2
  <2>2. ASSUME NEW q \in Pump, up'[Onward(q)] # "closed", Writes(q)'
        PROVE  cnt[Onward(q)] + Len(in'[Onward(q)]) = cnt[q] - Len(pump'[q].data)
    BY <1>1, <1>2, <1>5, <2>2, OnwardFacts DEF StreamInv, Arrived, Writes
  <2> QED BY <2>1, <2>2 DEF Arrived
<1> QED BY <1>9, <1>10, <1>11 DEF StreamInv

\* The steps that take nothing from an end.
Others == \/ \E f \in 1..Hops : Handler(f) \/ Killed(f)
          \/ \E p \in Pump : \/ ReadEnds(p) \/ ReadRaises(p) \/ Write(p)
                             \/ Drain(p) \/ DrainRaises(p) \/ Raised(p)
          \/ \E a \in App : Send(a) \/ SeesEnd(a) \/ Leaves(a)
          \/ UNCHANGED vars

LEMMA OthersKeepStream ==
  ASSUME TypeInv, TypeInv', Others, NEW cnt \in [End -> Nat], StreamInv(cnt)
  PROVE  StreamInv(cnt)'
<1> USE DEF TypeInv
<1> DEFINE Goal == StreamInv(cnt)'
           Less(p) == \/ pump'[p].data = pump[p].data /\ (Writes(p)' => Writes(p))
                      \/ pump'[p].data = <<>> /\ ~Writes(p)'
<1> SUFFICES Goal
  OBVIOUS
<1>1. ASSUME UNCHANGED <<sent, got>>, \A p \in Pump : Less(p),
             \A e \in End : /\ up'[e] # "closed" => up[e] # "closed" /\ in'[e] = in[e]
                            /\ Len(in'[e]) <= Len(in[e]) /\ \A i \in 1..Len(in'[e]) : in'[e][i] = in[e][i]
      PROVE  Goal
  BY <1>1, ShrinkKeepsStream
<1>2. ASSUME UNCHANGED <<sent, got>>, \A p \in Pump : Less(p), Shrinks PROVE Goal
  BY <1>1, <1>2 DEF Shrinks
<1>3. \A e \in End : Len(in[e]) \in Nat
  BY DEF TypeOK
<1>4. ASSUME NEW f \in 1..Hops, Connects(f) PROVE Goal
  <2>1. /\ Far(f) \in End /\ Opp(Far(f)) \in End /\ Near(f) \in Pump /\ Far(f) \in Pump
        /\ Opp(Opp(Far(f))) = Far(f) /\ Far(f) = Writer(Near(f)) /\ Near(f) = Writer(Far(f))
    BY ForwarderFacts, WriterFacts, OppFacts
  <2>2. \A e \in End : up'[e] # "closed" => up[e] # "closed"
    BY <1>4, <2>1 DEF Connects, TypeOK, Paired
  <2>3. \A p \in Pump : pump'[p].data = pump[p].data
    <3>1. Near(f) # Far(f)
      BY FwdAssumption DEF Near, Far
    <3>2. pump \in [Pump -> PumpState]
      BY DEF TypeOK, PumpState
    <3>3. \A p \in Pump : pump'[p] = IF p \in {Near(f), Far(f)} THEN [pump[p] EXCEPT !.pc = "read"]
                                     ELSE pump[p]
      BY <1>4, <2>1, <3>1, <3>2 DEF Connects
    <3> QED BY <3>2, <3>3 DEF PumpState
  <2>4. \A p \in Pump : Writes(p)' => Writes(p)
    <3>1. At(Near(f), "off") /\ At(Far(f), "off")
      BY <1>4, <2>1 DEF Connects, Unstarted
    <3>2. \A p \in Pump \ {Near(f), Far(f)} : pump'[p] = pump[p]
      BY <1>4, <2>1 DEF Connects, TypeOK
    <3> QED BY <3>1, <3>2 DEF Writes, At
  <2>5. UNCHANGED <<in, sent, got>>
    BY <1>4 DEF Connects, appVars
  <2>6. \A p \in Pump : Less(p)
    BY <2>3, <2>4
  <2>7. \A e \in End : Len(in'[e]) <= Len(in[e]) /\ in'[e] = in[e]
    BY <1>3, <2>5
  <2> QED BY <1>1, <2>2, <2>5, <2>6, <2>7
<1>5. ASSUME NEW f \in 1..Hops, ConnectFails(f) PROVE Goal
  <2>1. Shrinks /\ UNCHANGED <<pump, sent, got>>
    BY <1>5, ForwarderFacts, WriterFacts, ClosedShrinks DEF ConnectFails, CloseEnd, appVars
  <2> QED BY <1>2, <2>1 DEF Writes
<1>7. ASSUME NEW p \in Pump, ReadEnds(p) \/ Raised(p) PROVE Goal
  <2>1. Finally(p) /\ UNCHANGED <<sent, got>>
    BY <1>7 DEF ReadEnds, Raised, appVars
  <2>2. \A q \in Pump : Less(q)
    BY <2>1, FinallyShrinks DEF Writes
  <2> QED BY <1>2, <2>1, <2>2, FinallyShrinks
<1>8. ASSUME NEW p \in Pump, ReadRaises(p) PROVE Goal
  <2>1. p \in End /\ UNCHANGED <<sent, got>>
    BY <1>8, WriterFacts DEF ReadRaises, appVars
  <2>2. \A q \in Pump : Less(q)
    BY <1>8 DEF ReadRaises, TypeOK, Writes
  <2>3. up'[p] = "closed" /\ in'[p] = <<>> /\ \A e \in End \ {p} : up'[e] = up[e] /\ in'[e] = in[e]
    BY <1>8, <2>1 DEF ReadRaises, TypeOK
  <2>4. Len(in'[p]) = 0
    BY <2>3, EmptyBytes
  <2> QED BY <1>1, <1>3, <2>1, <2>2, <2>3, <2>4
<1>9. ASSUME NEW p \in Pump, Write(p) PROVE Goal
  BY <1>9, WriteKeepsStream
<1>10. ASSUME NEW p \in Pump, Drain(p) \/ DrainRaises(p) PROVE Goal
  <2>1. UNCHANGED <<up, in, sent, got>>
    BY <1>10 DEF Drain, DrainRaises, sockVars, appVars
  <2>2. \A q \in Pump : Less(q)
    <3>1. \A q \in Pump \ {p} : pump'[q] = pump[q]
      BY <1>10 DEF Drain, DrainRaises, TypeOK
    <3>2. CASE Drain(p)
      <4>1. pump'[p].data = pump[p].data /\ pump[p].pc = "drain"
        BY <3>2 DEF Drain, At, TypeOK
      <4> QED BY <3>1, <4>1 DEF Writes
    <3>3. CASE DrainRaises(p)
      <4>1. pump'[p].data = <<>> /\ pump'[p].pc = "raised"
        BY <3>3 DEF DrainRaises, TypeOK
      <4> QED BY <3>1, <4>1 DEF Writes
    <3> QED BY <1>10, <3>2, <3>3
  <2> QED BY <1>1, <1>3, <2>1, <2>2
<1>11. ASSUME NEW a \in App, Send(a) PROVE Goal
  BY <1>11, SendKeepsStream
<1>13. ASSUME NEW a \in App, SeesEnd(a) \/ Leaves(a) PROVE Goal
  <2>1. 0 \in 0..Len(in[a]) /\ a \in End
    BY AppFacts DEF TypeOK
  <2>2. Shrinks /\ UNCHANGED <<pump, sent, got>>
    BY <1>13, <2>1, ClosedShrinks DEF SeesEnd, Leaves, appVars
  <2> QED BY <1>2, <2>2 DEF Writes
<1>14. ASSUME NEW f \in 1..Hops, Killed(f) PROVE Goal
  <2> DEFINE mine == {Near(f), Far(f)}
  <2>1. UNCHANGED <<sent, got>> /\ \A q \in Pump : Less(q)
    BY <1>14 DEF Killed, Writes
  <2>2. ASSUME NEW e \in End
        PROVE  /\ up'[e] # "closed" => up[e] # "closed" /\ in'[e] = in[e]
               /\ Len(in'[e]) <= Len(in[e]) /\ \A i \in 1..Len(in'[e]) : in'[e][i] = in[e][i]
    <3>1. CASE e \in mine
      <4>1. in'[e] = <<>> /\ Len(in'[e]) = 0 /\ up'[e] = IF up[e] = "open" THEN "closed" ELSE up[e]
        BY <1>14, <3>1, EmptyBytes DEF Killed
      <4>2. up[e] = "none" => in[e] = <<>>
        BY DEF Paired
      <4> QED BY <1>3, <4>1, <4>2 DEF TypeOK
    <3>2. CASE e \notin mine
      <4>1. in'[e] = in[e] /\ up'[e] = up[e]
        BY <1>14, <3>2 DEF Killed
      <4> QED BY <1>3, <4>1
    <3> QED BY <3>1, <3>2
  <2> QED BY <1>1, <2>1, <2>2
<1>15. CASE UNCHANGED vars
  BY <1>1, <1>3, <1>15 DEF vars, sockVars, appVars, Writes
<1> QED BY <1>4, <1>5, <1>7, <1>8, <1>9, <1>10, <1>11, <1>13, <1>14, <1>15 DEF Others, Handler

LEMMA NextParts ==
  ASSUME [Next]_vars
  PROVE  Others \/ (\E p \in Pump : Read(p)) \/ (\E a \in App : Receive(a))
  BY DEF Next, Others, PumpStep, Reads

LEMMA OrderStep == TypeInv /\ TypeInv' /\ OrderInv /\ [Next]_vars => OrderInv'
<1> SUFFICES ASSUME TypeInv, TypeInv', [Next]_vars, NEW cnt \in [End -> Nat], StreamInv(cnt)
             PROVE  \E c \in [End -> Nat] : StreamInv(c)'
  BY DEF OrderInv
<1>1. CASE Others
  BY <1>1, OthersKeepStream
<1>2. ASSUME NEW p \in Pump, Read(p) PROVE \E c \in [End -> Nat] : StreamInv(c)'
  BY <1>2, ReadKeepsStream DEF TypeInv
<1>3. ASSUME NEW a \in App, Receive(a) PROVE \E c \in [End -> Nat] : StreamInv(c)'
  BY <1>3, ReceiveKeepsStream DEF TypeInv
<1> QED BY <1>1, <1>2, <1>3, NextParts

LEMMA StreamInit == Init => StreamInv([e \in End |-> 0])
<1> SUFFICES ASSUME Init PROVE StreamInv([e \in End |-> 0])
  OBVIOUS
<1> DEFINE zero == [e \in End |-> 0]
<1>1. /\ \A e \in End : zero[e] = 0 /\ in[e] = <<>> /\ Len(in[e]) = 0
      /\ \A p \in Pump : p \in End /\ pump[p].data = <<>> /\ Len(pump[p].data) = 0 /\ Onward(p) \in End
      /\ \A a \in App : a \in End /\ Opp(a) \in End /\ sent[a] = 0 /\ got[a] = <<>> /\ Len(got[a]) = 0
  BY EmptyBytes, WriterFacts, AppFacts, OppFacts, OnwardFacts DEF Init
<1> HIDE DEF zero
<1>2. Numbered(zero)
  BY <1>1 DEF Numbered
<1>3. Sent(zero)
  BY <1>1, SourceFacts DEF Sent
<1>4. Arrived(zero)
  BY <1>1 DEF Arrived
<1> QED BY <1>2, <1>3, <1>4 DEF StreamInv, zero

LEMMA OrderInvariant == Spec => []OrderInv
<1>1. Init => OrderInv
  BY StreamInit DEF OrderInv
<1>2. TypeInv /\ TypeInv' /\ OrderInv /\ [Next]_vars => OrderInv'
  BY OrderStep
<1> QED BY <1>1, <1>2, TypeInvariant, PTL DEF Spec

\* What arrives at the client and at the node is a prefix of what the other one
\* sent, in order and once, through any number of forwarders, and whatever is
\* closed, reset or killed on the way (pump).
THEOREM OrderCorrect == Spec => []InOrder
<1>1. TypeInv /\ OrderInv => InOrder
  <2> SUFFICES ASSUME TypeOK, NEW cnt \in [End -> Nat], StreamInv(cnt), NEW a \in App
               PROVE  Len(got[a]) <= sent[Peer(a)] /\ \A i \in DOMAIN got[a] : got[a][i] = i
    BY DEF TypeInv, OrderInv, InOrder
  <2>1. a \in End /\ Source(a) = Peer(a) /\ Source(a) \in App
    BY AppFacts, SourceFacts DEF Source, Peer, App, client, node
  <2>2. Len(got[a]) = cnt[a] /\ \A i \in 1..Len(got[a]) : got[a][i] = i
    BY DEF StreamInv, Numbered
  <2>3. cnt[a] + Len(in[a]) <= sent[Peer(a)] /\ Len(in[a]) \in Nat /\ sent[Peer(a)] \in Nat
    BY <2>1, FwdAssumption DEF StreamInv, Sent, TypeOK
  <2>4. DOMAIN got[a] = 1..Len(got[a])
    BY DEF TypeOK
  <2> QED BY <2>1, <2>2, <2>3, <2>4
<1> QED BY <1>1, TypeInvariant, OrderInvariant, PTL

-----------------------------------------------------------------------------
(* The end of a stream.                                                    *)

Clean == ~killed /\ \A e \in End : ~reset[e]

\* Where the bytes that arrive at an end go to.
Sink(e) == IF e[2] = "s" THEN node ELSE client

\* A forwarder has not reached the next one, or the node.
Broken == \E f \in 1..Hops : up[Near(f)] = "closed" /\ up[Far(f)] = "none"

\* The client, or the node, will not see the end of its stream.
Lost(a) == (up[a] = "closed" /\ saw[a] # "eof") \/ (a = node /\ Broken)

\* It sends nothing more.
NoMore(a) == up[a] = "closed" \/ (a = node /\ Broken)

\* Sockets are connected one behind the other, and nobody sends before.
Chained == /\ \A j, k \in 1..(Hops + 1) : j <= k /\ up[<<k, "s">>] # "none" => up[<<j, "s">>] # "none"
           /\ up[client] # "none"
           /\ up[node] = "none" => sent[node] = 0

\* Who has seen the end of its stream has closed, as the other end had.
Ended == \A a \in App : saw[a] = "eof" => up[a] = "closed" /\ in[a] = <<>> /\ up[Opp(a)] = "closed"

\* The two pumps of a forwarder are started together.
Together == \A p \in Pump : At(p, "off") => At(Writer(p), "off")

FlowInv == Chained /\ Ended /\ Together

\* As long as nothing is reset no pump fails; only its pump closes an end, and
\* only after it has read all.
Orderly ==
  \A p \in Pump : /\ ~At(p, "raised")
                  /\ up[Writer(p)] = "closed" => pump[p].pc \in {"off", "done"}
                  /\ At(p, "done") => in[p] = <<>> /\ "closed" \in {up[p], up[Opp(p)]}

\* An end is closed after the other one, unless the closing comes from where
\* the bytes go to.
Wave == \A p \in Pump : up[p] = "closed" => up[Opp(p)] = "closed" \/ Lost(Sink(p))

\* Nothing is lost on the way.
Lossless(cnt) == /\ \A a \in App : Total(cnt, Opp(a)) = sent[a]
                 /\ \A p \in Pump : Total(cnt, Onward(p)) = Written(cnt, p)

\* Behind an end that is closed in the direction of the stream, all has arrived.
Complete(cnt) == \A e \in End : up[Opp(e)] = "closed" /\ ~Lost(Sink(e))
                                  => Total(cnt, e) = sent[Source(e)] /\ NoMore(Source(e))

CleanInv(cnt) == Orderly /\ Wave /\ Lossless(cnt) /\ Complete(cnt)

EndInv == FlowInv /\ \E cnt \in [End -> Nat] : StreamInv(cnt) /\ (Clean => CleanInv(cnt))

LEMMA SinkFacts ==
  /\ \A e \in End : Sink(e) \in App
  /\ \A a \in App : Sink(a) = a /\ Source(a) = Peer(a) /\ Peer(a) \in App
  /\ \A p \in Pump : Sink(Writer(p)) = Sink(Opp(p)) /\ Sink(Onward(p)) = Sink(p)
  /\ \A f \in 1..Hops : Sink(Near(f)) = node /\ Source(Opp(Near(f))) = node
  /\ \A e \in End : up[e] = "none" /\ Chained /\ Paired => up[node] = "none"
<1>1. \A e \in End : Sink(e) \in App
  BY DEF Sink, App
<1>2. \A a \in App : Sink(a) = a /\ Source(a) = Peer(a) /\ Peer(a) \in App
  BY AppFacts DEF Sink, Source, Peer, App, client, node
<1>3. ASSUME NEW p \in Pump PROVE Sink(Writer(p)) = Sink(Opp(p)) /\ Sink(Onward(p)) = Sink(p)
  <2>1. PICK k \in 1..(Hops + 1) : p = <<k, "c">> \/ p = <<k, "s">>
    BY EndPairs, WriterFacts
  <2> QED BY <2>1 DEF Sink, Writer, Opp, Onward
<1>4. \A f \in 1..Hops : Sink(Near(f)) = node /\ Source(Opp(Near(f))) = node
  BY DEF Sink, Source, Near, Opp
<1>5. ASSUME NEW e \in End, up[e] = "none", Chained, Paired PROVE up[node] = "none"
  <2>1. PICK k \in 1..(Hops + 1) : e = <<k, "c">> \/ e = <<k, "s">>
    BY EndPairs
  <2>2. up[<<k, "s">>] = "none"
    BY <1>5, <2>1 DEF Paired, Opp
  <2>3. k <= Hops + 1 /\ Hops + 1 \in 1..(Hops + 1)
    BY FwdAssumption
  <2> QED BY <1>5, <2>2, <2>3 DEF Chained, node
<1> QED BY <1>1, <1>2, <1>3, <1>4, <1>5

\* What happens to the ends: closed ends stay closed, and so on.
Advances ==
  /\ \A e \in End : /\ up[e] = "closed" => up'[e] = "closed"
                    /\ up[e] # "none" => up'[e] # "none"
                    /\ reset[e] => reset'[e]
  /\ killed => killed'
  /\ \A f \in 1..Hops : up[Near(f)] = "closed" /\ up[Far(f)] = "none" => up'[Far(f)] = "none"
  /\ \A e \in End : up[e] = "none" /\ up'[e] # "none"
                      => \E f \in 1..Hops : up[Near(f)] = "open" /\ e \in {Far(f), Opp(Far(f))}
  /\ \A a \in App : /\ saw'[a] = "eof" => saw[a] = "eof" \/ up[a] = "open"
                    /\ sent'[a] = sent[a] \/ up'[a] # "none"

LEMMA AdvanceStep ==
  ASSUME TypeInv, [Next]_vars
  PROVE  Advances
<1> USE DEF TypeInv
<1> DEFINE Later(e) == /\ up[e] = "closed" => up'[e] = "closed"
                       /\ up[e] # "none" <=> up'[e] # "none"
                       /\ reset[e] => reset'[e]
<1>0. \A f \in 1..Hops : Near(f) \in End /\ Far(f) \in End
  BY ForwarderFacts, WriterFacts
<1>1. ASSUME \A e \in End : Later(e), killed' = killed,
             \A a \in App : saw'[a] = "eof" => saw[a] = "eof" \/ up[a] = "open",
             \A a \in App : sent'[a] = sent[a] \/ up'[a] # "none"
      PROVE  Advances
  BY <1>0, <1>1 DEF Advances
<1>2. ASSUME NEW d \in End, NEW n, Closed(d, n) PROVE \A e \in End : Later(e)
  BY <1>2, OppFacts DEF Closed, TypeOK
<1>3. ASSUME NEW d \in End, NEW b, Deliver(d, b) PROVE \A e \in End : Later(e)
  BY <1>3 DEF Deliver, TypeOK
<1>4. ASSUME NEW f \in 1..Hops, Connects(f) PROVE Advances
  <2>1. Far(f) \in End /\ Opp(Far(f)) \in End /\ up[Opp(Far(f))] = "none"
    BY <1>0, <1>4, OppFacts DEF Connects, Paired
  <2>2. \A e \in End : up'[e] = IF e \in {Far(f), Opp(Far(f))} THEN "open" ELSE up[e]
    BY <1>4, <2>1 DEF Connects, TypeOK
  <2>3. UNCHANGED <<reset, killed, saw, sent>> /\ up[Near(f)] = "open" /\ up[Far(f)] = "none"
    BY <1>4 DEF Connects, appVars
  <2>4. ASSUME NEW g \in 1..Hops, up[Near(g)] = "closed" PROVE Far(g) # Far(f) /\ Far(g) # Opp(Far(f))
    BY <2>3, <2>4 DEF Near, Far, Opp
  <2>5. \A g \in 1..Hops : up[Near(g)] = "closed" /\ up[Far(g)] = "none" => up'[Far(g)] = "none"
    BY <1>0, <2>2, <2>4
  <2> QED BY <2>1, <2>2, <2>3, <2>5 DEF Advances
<1>5. ASSUME NEW f \in 1..Hops, ConnectFails(f) PROVE Advances
  <2>1. UNCHANGED <<killed, saw, sent>> /\ \A e \in End : Later(e)
    BY <1>0, <1>2, <1>5 DEF ConnectFails, CloseEnd, appVars
  <2> QED BY <1>1, <2>1
<1>6. ASSUME NEW p \in Pump, PumpStep(p) PROVE Advances
  <2>1. UNCHANGED <<killed, saw, sent>>
    BY <1>6 DEF PumpStep, Read, ReadEnds, ReadRaises, Write, Drain, DrainRaises, Raised, appVars
  <2>2. Writer(p) \in End /\ p \in End
    BY WriterFacts
  <2>3. \A e \in End : Later(e)
    <3>1. CASE Read(p) \/ Drain(p) \/ DrainRaises(p)
      BY <3>1 DEF Read, Drain, DrainRaises, sockVars
    <3>2. CASE ReadEnds(p) \/ Raised(p)
      BY <1>2, <2>2, <3>2 DEF ReadEnds, Raised, Finally, CloseEnd
    <3>3. CASE ReadRaises(p)
      <4>1. up[p] # "none"
        BY <3>3 DEF ReadRaises, At, Unstarted
      <4> QED BY <2>2, <3>3, <4>1 DEF ReadRaises, TypeOK
    <3>4. CASE Write(p)
      BY <1>3, <2>2, <3>4 DEF Write
    <3> QED BY <1>6, <3>1, <3>2, <3>3, <3>4 DEF PumpStep
  <2> QED BY <1>1, <2>1, <2>3
<1>7. ASSUME NEW a \in App, Send(a) \/ Receive(a) \/ SeesEnd(a) \/ Leaves(a) PROVE Advances
  <2>1. killed' = killed /\ \A e \in End : Later(e)
    BY <1>2, <1>3, <1>7, AppFacts DEF Send, Receive, SeesEnd, Leaves, appVars
  <2>2. \A b \in App : saw'[b] = "eof" => saw[b] = "eof" \/ up[b] = "open"
    BY <1>7 DEF Send, Receive, SeesEnd, Leaves, appVars, TypeOK
  <2>3. \A b \in App : sent'[b] = sent[b] \/ up'[b] # "none"
    <3>1. CASE Send(a)
      <4>1. \A b \in App : b # a => sent'[b] = sent[b]
        BY <3>1 DEF Send, TypeOK
      <4>2. up'[a] # "none"
        BY <2>1, <3>1, AppFacts DEF Send
      <4> QED BY <4>1, <4>2
    <3>2. CASE ~Send(a)
      BY <1>7, <3>2 DEF Receive, SeesEnd, Leaves, appVars
    <3> QED BY <3>1, <3>2
  <2> QED BY <1>1, <2>1, <2>2, <2>3
<1>8. ASSUME NEW f \in 1..Hops, Killed(f) PROVE Advances
  <2>1. \A e \in End : Later(e)
    BY <1>8 DEF Killed, TypeOK
  <2> QED BY <1>0, <1>8, <2>1 DEF Killed, Advances
<1>9. CASE UNCHANGED vars
  <2>1. UNCHANGED <<up, reset, killed, saw, sent>>
    BY <1>9 DEF vars, sockVars, appVars
  <2> QED BY <1>1, <2>1
<1> QED BY <1>4, <1>5, <1>6, <1>7, <1>8, <1>9 DEF Next, Handler, Reads

\* What is over stays so.
LEMMA OverStays ==
  ASSUME TypeInv, Advances
  PROVE  /\ Clean' => Clean
         /\ \A a \in App : (Lost(a) => Lost(a)') /\ (NoMore(a) => NoMore(a)')
<1>1. Clean' => Clean
  BY DEF Advances, Clean
<1>2. Broken => Broken'
  <2>1. ASSUME NEW f \in 1..Hops, up[Near(f)] = "closed", up[Far(f)] = "none" PROVE Broken'
    <3>1. Near(f) \in End
      BY ForwarderFacts, WriterFacts
    <3>2. up'[Near(f)] = "closed" /\ up'[Far(f)] = "none"
      BY <2>1, <3>1 DEF Advances
    <3>3. (up[Near(f)] = "closed" /\ up[Far(f)] = "none")'
      BY <3>2 DEF Near, Far
    <3> QED BY <3>3 DEF Broken
  <2> QED BY <2>1 DEF Broken
<1> QED BY <1>1, <1>2, AppFacts DEF Advances, Lost, NoMore

\* A closed end that is empty stays empty.
LEMMA DryStays ==
  ASSUME TypeInv, [Next]_vars, NEW e \in End, up[e] = "closed", in[e] = <<>>
  PROVE  in'[e] = <<>>
<1> USE DEF TypeInv
<1>0. Len(in[e]) = 0
  BY EmptyBytes
<1>1. ASSUME NEW d \in End, NEW n, Closed(d, n) PROVE in'[e] = <<>>
  BY <1>1 DEF Closed, TypeOK
<1>2. ASSUME NEW d \in End, NEW b, Deliver(d, b) PROVE in'[e] = <<>>
  BY <1>2, OppFacts DEF Deliver, TypeOK
<1>3. ASSUME NEW f \in 1..Hops, Handler(f) PROVE in'[e] = <<>>
  <2>1. Near(f) \in End
    BY ForwarderFacts, WriterFacts
  <2> QED BY <1>1, <1>3, <2>1 DEF Handler, Connects, ConnectFails, CloseEnd
<1>4. ASSUME NEW p \in Pump, Read(p) PROVE in'[e] = <<>>
  BY <1>0, <1>4, WriterFacts DEF Read, TypeOK
<1>5. ASSUME NEW p \in Pump, ReadEnds(p) \/ Raised(p) \/ Write(p) PROVE in'[e] = <<>>
  BY <1>1, <1>2, <1>5, WriterFacts DEF ReadEnds, Raised, Finally, CloseEnd, Write
<1>6. ASSUME NEW p \in Pump, ReadRaises(p) \/ Drain(p) \/ DrainRaises(p) PROVE in'[e] = <<>>
  BY <1>6, WriterFacts DEF ReadRaises, Drain, DrainRaises, sockVars, TypeOK
<1>7. ASSUME NEW a \in App, Send(a) \/ Receive(a) \/ SeesEnd(a) \/ Leaves(a) PROVE in'[e] = <<>>
  BY <1>1, <1>2, <1>7, AppFacts DEF Send, Receive, SeesEnd, Leaves, TypeOK
<1>8. ASSUME NEW f \in 1..Hops, Killed(f) PROVE in'[e] = <<>>
  BY <1>8 DEF Killed
<1>9. CASE UNCHANGED vars
  BY <1>9 DEF vars, sockVars
<1> QED BY <1>3, <1>4, <1>5, <1>6, <1>7, <1>8, <1>9 DEF Next, PumpStep, Reads

LEMMA ChainedStep ==
  ASSUME TypeInv, Chained, Advances
  PROVE  Chained'
<1>0. \A k \in 1..(Hops + 1) : <<k, "s">> \in End
  BY EndPairs
<1>1. ASSUME NEW j \in 1..(Hops + 1), NEW k \in 1..(Hops + 1), j <= k, up'[<<k, "s">>] # "none"
      PROVE  up'[<<j, "s">>] # "none"
  <2>1. CASE j = k
    BY <1>1, <2>1
  <2>2. CASE up[<<k, "s">>] # "none"
    BY <1>0, <1>1, <2>2 DEF Chained, Advances
  <2>3. CASE j < k /\ up[<<k, "s">>] = "none"
    <3>1. PICK f \in 1..Hops : up[Near(f)] = "open" /\ <<k, "s">> \in {Far(f), Opp(Far(f))}
      BY <1>0, <1>1, <2>3 DEF Advances
    <3>2. k = f + 1 /\ up[<<f, "s">>] # "none"
      BY <3>1 DEF Near, Far, Opp
    <3>3. j <= f /\ f \in 1..(Hops + 1)
      BY <2>3, <3>2, FwdAssumption
    <3> QED BY <1>0, <3>2, <3>3 DEF Chained, Advances
  <2> QED BY <1>1, <2>1, <2>2, <2>3, FwdAssumption
<1>2. client \in End /\ node \in End /\ node \in App
  BY AppFacts DEF App
<1>3. up'[client] # "none" /\ (up'[node] = "none" => sent'[node] = 0)
  BY <1>2 DEF Chained, Advances
<1> QED BY <1>1, <1>3 DEF Chained, client, node

LEMMA EndedStep ==
  ASSUME TypeInv, Ended, Advances, [Next]_vars
  PROVE  Ended'
<1> SUFFICES ASSUME NEW a \in App, saw'[a] = "eof"
             PROVE  up'[a] = "closed" /\ in'[a] = <<>> /\ up'[Opp(a)] = "closed"
  BY DEF Ended
<1>0. a \in End /\ Opp(a) \in End
  BY AppFacts, OppFacts
<1>1. CASE saw[a] = "eof"
  BY <1>0, <1>1, DryStays DEF Ended, Advances
<1>2. CASE saw[a] # "eof"
  <2>1. SeesEnd(a)
    <3>1. ASSUME UNCHANGED saw PROVE FALSE
      BY <1>2, <3>1
    <3>2. ASSUME NEW b \in App, SeesEnd(b), b # a PROVE FALSE
      BY <1>2, <3>2 DEF SeesEnd, TypeInv, TypeOK
    <3> QED BY <3>1, <3>2 DEF Next, Handler, Connects, ConnectFails, PumpStep, Read, ReadEnds, ReadRaises,
               Write, Drain, DrainRaises, Raised, Reads, Send, Receive, Leaves, Killed, vars, appVars
  <2>2. ~reset[a] /\ up[a] = "open" /\ up[Opp(a)] = "closed" /\ in[a] = <<>>
    BY <1>2, <2>1 DEF SeesEnd, TypeInv, TypeOK
  <2>3. Closed(a, 0) /\ 0 \in 0..Len(in[a]) /\ in[a] \in Seq(Nat)
    BY <1>0, <2>1 DEF SeesEnd, TypeInv, TypeOK
  <2>4. up'[a] = "closed" /\ in'[a] = Prefix(in[a], 0)
    BY <1>0, <2>2, <2>3 DEF Closed, TypeInv, TypeOK
  <2>5. Prefix(in[a], 0) = <<>>
    BY <2>3, TakenBytes
  <2> QED BY <1>0, <2>2, <2>4, <2>5 DEF Advances
<1> QED BY <1>1, <1>2

LEMMA TogetherStep ==
  ASSUME TypeInv, Together, [Next]_vars
  PROVE  Together'
<1> USE DEF TypeInv
<1>1. ASSUME \A p \in Pump : At(p, "off")' <=> At(p, "off") PROVE Together'
  BY <1>1, WriterFacts DEF Together
<1>2. ASSUME NEW f \in 1..Hops, ~At(Near(f), "off")', ~At(Far(f), "off")',
             \A p \in Pump \ {Near(f), Far(f)} : pump'[p] = pump[p]
      PROVE  Together'
  <2>1. Near(f) \in Pump /\ Far(f) \in Pump /\ Far(f) = Writer(Near(f)) /\ Near(f) = Writer(Far(f))
    BY ForwarderFacts
  <2>2. \A p \in Pump \ {Near(f), Far(f)} : Writer(p) \in Pump \ {Near(f), Far(f)}
    BY <2>1, WriterFacts
  <2>3. ASSUME NEW p \in Pump, At(p, "off")' PROVE At(Writer(p), "off")'
    <3>1. p \notin {Near(f), Far(f)}
      BY <1>2, <2>3
    <3> QED BY <1>2, <2>2, <2>3, <3>1 DEF Together, At
  <2> QED BY <2>3 DEF Together, Writer
<1>3. ASSUME NEW f \in 1..Hops, Connects(f) PROVE Together'
  <2>1. Near(f) \in Pump /\ Far(f) \in Pump
    BY ForwarderFacts
  <2>2. pump'[Near(f)].pc = "read" /\ pump'[Far(f)].pc = "read"
    BY <1>3, <2>1 DEF Connects, TypeOK
  <2>3. \A p \in Pump \ {Near(f), Far(f)} : pump'[p] = pump[p]
    BY <1>3, <2>1 DEF Connects, TypeOK
  <2>4. ~At(Near(f), "off")' /\ ~At(Far(f), "off")'
    BY <2>2 DEF At, Near, Far
  <2> QED BY <1>2, <2>3, <2>4
<1>4. ASSUME NEW f \in 1..Hops, Killed(f) PROVE Together'
  <2>1. Near(f) \in Pump /\ Far(f) \in Pump
    BY ForwarderFacts
  <2>2. pump'[Near(f)].pc = "done" /\ pump'[Far(f)].pc = "done"
    BY <1>4, <2>1 DEF Killed
  <2>3. \A p \in Pump \ {Near(f), Far(f)} : pump'[p] = pump[p]
    BY <1>4 DEF Killed
  <2>4. ~At(Near(f), "off")' /\ ~At(Far(f), "off")'
    BY <2>2 DEF At, Near, Far
  <2> QED BY <1>2, <2>3, <2>4
<1>5. ASSUME UNCHANGED pump PROVE Together'
  BY <1>1, <1>5 DEF At
<1>6. ASSUME NEW p \in Pump, PumpStep(p) PROVE Together'
  <2>1. \A q \in Pump : At(q, "off")' <=> At(q, "off")
    BY <1>6 DEF PumpStep, Read, ReadEnds, Finally, ReadRaises, Write, Drain, DrainRaises, Raised, At, TypeOK
  <2> QED BY <1>1, <2>1
<1> QED BY <1>3, <1>4, <1>5, <1>6
        DEF Next, Handler, ConnectFails, Reads, Send, Receive, SeesEnd, Leaves, vars

LEMMA FlowStep == TypeInv /\ FlowInv /\ [Next]_vars => FlowInv'
  BY AdvanceStep, ChainedStep, EndedStep, TogetherStep DEF FlowInv

\* Bytes move, and no end is closed.
LEMMA MovesKeepClean ==
  ASSUME Advances, TypeInv, NEW cnt, NEW c, Wave, Lossless(cnt), Complete(cnt), UNCHANGED <<up, sent>>,
         \A e \in End : Total(c, e)' = Total(cnt, e),
         \A q \in Pump : Written(c, q)' = Written(cnt, q)
  PROVE  Wave' /\ Lossless(c)' /\ Complete(c)'
<1>1. \A a \in App : (Lost(a) => Lost(a)') /\ (NoMore(a) => NoMore(a)')
  BY OverStays
<1>2. \A e \in End : Sink(e) \in App /\ Source(e) \in App /\ Opp(e) \in End
  BY SinkFacts, SourceFacts, OppFacts
<1>3. Wave'
  <2> SUFFICES ASSUME NEW p \in Pump, up'[p] = "closed" PROVE up'[Opp(p)] = "closed" \/ Lost(Sink(p))'
    BY DEF Wave
  <2>1. p \in End /\ Sink(p) \in App
    BY <1>2, WriterFacts
  <2>2. PICK k \in App : k = Sink(p)
    BY <2>1
  <2>3. Lost(k) => Lost(k)'
    BY <1>1
  <2> QED BY <2>2, <2>3 DEF Wave, Sink, node, client
<1>4. Lossless(c)'
  BY AppFacts, OppFacts, OnwardFacts DEF Lossless
<1>5. Complete(c)'
  <2> SUFFICES ASSUME NEW e \in End, up'[Opp(e)] = "closed", ~Lost(Sink(e))'
               PROVE  Total(c, e)' = sent'[Source(e)] /\ NoMore(Source(e))'
    BY DEF Complete, Source
  <2>1. PICK k \in App, j \in App : k = Sink(e) /\ j = Source(e)
    BY <1>2
  <2>2. ~Lost(k)
    BY <1>1, <2>1 DEF Sink, node, client
  <2>3. Total(cnt, e) = sent[j] /\ NoMore(j)
    BY <2>1, <2>2 DEF Complete
  <2>4. NoMore(j)'
    BY <1>1, <2>3
  <2>5. NoMore(Source(e))'
    BY <2>1, <2>4 DEF Source, node, client
  <2> QED BY <2>1, <2>3, <2>5
<1> QED BY <1>3, <1>4, <1>5

\* An end that is closed and resets nothing has received all.
LEMMA CleanCloses ==
  ASSUME TypeInv, Clean', NEW d \in End, NEW n \in 0..Len(in[d]), Closed(d, n), up[d] = "open"
  PROVE  in' = in /\ up' = [up EXCEPT ![d] = "closed"]
<1> USE DEF TypeInv
<1>1. Opp(d) \in End /\ in[d] \in Seq(Nat) /\ Len(in[d]) \in Nat
  BY OppFacts DEF TypeOK
<1>2. ~reset'[Opp(d)]
  BY <1>1 DEF Clean
<1>3. ~(n < Len(in[d]))
  BY <1>1, <1>2 DEF Closed, TypeOK
<1>4. n = Len(in[d])
  BY <1>1, <1>3
<1>5. Prefix(in[d], n) = in[d]
  BY <1>1, <1>4 DEF Prefix
<1> QED BY <1>5 DEF Closed, TypeOK

\* An end is closed, and nothing is lost with it: it is not the first of its
\* socket, or there is nobody for what comes; and all has arrived behind it.
LEMMA CloseKeepsClean ==
  ASSUME Advances, TypeInv, NEW cnt, Wave, Lossless(cnt), Complete(cnt), NEW d \in End,
         in' = in, up' = [up EXCEPT ![d] = "closed"], UNCHANGED sent,
         \A q \in Pump : pump'[q].data = pump[q].data,
         d \in Pump => up[Opp(d)] = "closed" \/ Lost(Sink(d))',
         ~Lost(Sink(Opp(d)))' => /\ Total(cnt, Opp(d)) = sent[Source(Opp(d))]
                                 /\ NoMore(Source(Opp(d)))'
  PROVE  Wave' /\ Lossless(cnt)' /\ Complete(cnt)'
<1>1. \A a \in App : (Lost(a) => Lost(a)') /\ (NoMore(a) => NoMore(a)')
  BY OverStays
<1>2. \A e \in End : Sink(e) \in App /\ Source(e) \in App /\ Opp(e) \in End /\ Opp(Opp(e)) = e
  BY SinkFacts, SourceFacts, OppFacts
<1>0. \A e \in End : up'[e] = IF e = d THEN "closed" ELSE up[e]
  BY DEF TypeInv, TypeOK
<1>3. Wave'
  <2> SUFFICES ASSUME NEW p \in Pump, up'[p] = "closed" PROVE up'[Opp(p)] = "closed" \/ Lost(Sink(p))'
    BY DEF Wave
  <2>1. p \in End /\ Sink(p) \in App /\ Opp(p) \in End
    BY <1>2, WriterFacts
  <2>2. PICK k \in App : k = Sink(p)
    BY <2>1
  <2>3. Lost(k) => Lost(k)'
    BY <1>1
  <2>4. CASE p = d
    BY <1>0, <2>1, <2>4
  <2>5. CASE p # d
    BY <1>0, <2>1, <2>2, <2>3, <2>5 DEF Wave, Sink, node, client
  <2> QED BY <2>4, <2>5
<1>4. Lossless(cnt)'
  BY DEF Lossless, Total, Written
<1>5. Complete(cnt)'
  <2> SUFFICES ASSUME NEW e \in End, up'[Opp(e)] = "closed", ~Lost(Sink(e))'
               PROVE  Total(cnt, e)' = sent'[Source(e)] /\ NoMore(Source(e))'
    BY DEF Complete, Source
  <2>0. Total(cnt, e)' = Total(cnt, e)
    BY DEF Total
  <2>1. PICK k \in App, j \in App : k = Sink(e) /\ j = Source(e)
    BY <1>2
  <2>2. CASE Opp(e) # d
    <3>1. up[Opp(e)] = "closed" /\ ~Lost(k)
      BY <1>0, <1>1, <1>2, <2>1, <2>2 DEF Sink, node, client
    <3>2. Total(cnt, e) = sent[j] /\ NoMore(j)
      BY <2>1, <3>1 DEF Complete
    <3>3. NoMore(Source(e))'
      BY <1>1, <2>1, <3>2 DEF Source, node, client
    <3> QED BY <2>0, <2>1, <3>2, <3>3
  <2>3. CASE Opp(e) = d
    <3>1. e = Opp(d)
      BY <1>2, <2>3
    <3> QED BY <2>0, <3>1
  <2> QED BY <2>2, <2>3
<1> QED BY <1>3, <1>4, <1>5

\* The hypotheses of a step that resets nothing.
Steady(cnt) == /\ TypeInv /\ TypeInv' /\ FlowInv /\ Advances
               /\ Clean /\ Clean' /\ StreamInv(cnt) /\ CleanInv(cnt)

\* A pump that finds the end of its stream closes after all it was to write.
LEMMA ReadEndsClean ==
  ASSUME NEW cnt \in [End -> Nat], Steady(cnt), NEW p \in Pump, ReadEnds(p)
  PROVE  CleanInv(cnt)'
<1> USE DEF Steady, TypeInv, FlowInv
<1> DEFINE w == Writer(p)
           e == Onward(p)
<1>0. /\ p \in End /\ w \in Pump /\ w \in End /\ Writer(w) = p /\ w # p
      /\ Opp(p) \in End /\ Opp(Opp(p)) = p /\ Opp(w) = e /\ Opp(e) = w /\ e \in End /\ Opp(w) # w
  BY WriterFacts, OppFacts, OnwardFacts DEF Onward
<1>1. At(p, "read") /\ in[p] = <<>> /\ "closed" \in {up[p], up[Opp(p)]} /\ UNCHANGED <<sent, saw>>
  BY DEF ReadEnds, appVars
<1>2. pump' = [pump EXCEPT ![p] = [pc |-> "done", data |-> <<>>]] /\ CloseEnd(w)
  BY DEF ReadEnds, Finally
<1>3. up[w] = "open"
  <2>1. up[w] # "closed"
    BY <1>1 DEF CleanInv, Orderly, At
  <2>2. up[w] # "none"
    BY <1>1 DEF Unstarted, At
  <2> QED BY <1>0, <2>1, <2>2 DEF TypeOK
<1>4. in' = in /\ up' = [up EXCEPT ![w] = "closed"]
  BY <1>0, <1>2, <1>3, CleanCloses DEF CloseEnd
<1>5. \A d \in End : up'[d] = IF d = w THEN "closed" ELSE up[d]
  BY <1>4 DEF TypeOK
<1>6. pump[p].data = <<>> /\ \A q \in Pump : pump'[q].data = pump[q].data
  <2>1. pump[p].data = <<>>
    BY <1>1 DEF TypeOK, At
  <2> QED BY <1>2, <2>1 DEF TypeOK
<1>7. up[Opp(p)] = "closed" \/ Lost(Sink(p))
  BY <1>1 DEF CleanInv, Wave
<1>8. up[Opp(w)] = "closed" \/ Lost(Sink(w))
  <2>1. CASE up[p] = "closed"
    <3>1. pump[w].pc \in {"off", "done"}
      BY <1>0, <2>1 DEF CleanInv, Orderly
    <3>2. ~At(w, "off")
      BY <1>0, <1>1 DEF Together, At
    <3>3. "closed" \in {up[w], up[Opp(w)]}
      BY <1>0, <3>1, <3>2 DEF CleanInv, Orderly, At
    <3> QED BY <1>3, <3>3
  <2>2. CASE up[p] # "closed" /\ up[Opp(p)] = "closed"
    <3>1. CASE Opp(p) \in Pump
      <4>1. Lost(Sink(Opp(p)))
        BY <1>0, <2>2, <3>1 DEF CleanInv, Wave
      <4> QED BY <4>1, SinkFacts
    <3>2. CASE Opp(p) \in App
      <4>1. PICK k \in App : k = Opp(p)
        BY <3>2
      <4>2. saw[k] # "eof"
        BY <1>0, <2>2, <4>1 DEF Ended
      <4>3. Lost(k) /\ Sink(k) = k
        BY <2>2, <4>1, <4>2, SinkFacts DEF Lost
      <4> QED BY <4>1, <4>3, SinkFacts
    <3> QED BY <1>0, <3>1, <3>2, EndIsRead
  <2> QED BY <1>1, <2>1, <2>2
<1>9. Orderly'
  <2> SUFFICES ASSUME NEW q \in Pump
               PROVE  /\ ~At(q, "raised")'
                      /\ up'[Writer(q)] = "closed" => pump'[q].pc \in {"off", "done"}
                      /\ At(q, "done")' => in'[q] = <<>> /\ "closed" \in {up'[q], up'[Opp(q)]}
    BY DEF Orderly
  <2>0. q \in End /\ Opp(q) \in End /\ Writer(q) \in End
    BY WriterFacts, OppFacts
  <2>1. CASE q = p
    <3>1. pump'[p].pc = "done"
      BY <1>2 DEF TypeOK
    <3> QED BY <1>0, <1>1, <1>4, <1>5, <2>1, <3>1 DEF At
  <2>2. CASE q # p
    <3>1. pump'[q] = pump[q] /\ Writer(q) # w
      BY <1>0, <1>2, <2>2, WriterFacts DEF TypeOK
    <3> QED BY <1>4, <1>5, <2>0, <3>1 DEF CleanInv, Orderly, At
  <2> QED BY <2>1, <2>2
<1>10. \A k \in App : (Lost(k) => Lost(k)') /\ (NoMore(k) => NoMore(k)')
  BY OverStays
<1>11. up[Opp(w)] = "closed" \/ Lost(Sink(w))'
  <2>1. PICK k \in App : k = Sink(w)
    BY <1>0, SinkFacts
  <2>2. Lost(k) => Lost(k)'
    BY <1>10
  <2> QED BY <1>8, <2>1, <2>2 DEF Sink, node, client
<1>12. ASSUME ~Lost(Sink(e))' PROVE Total(cnt, e) = sent[Source(e)] /\ NoMore(Source(e))'
  <2>1. PICK k \in App, j \in App : k = Sink(p) /\ j = Source(p) /\ k = Sink(e) /\ j = Source(e)
    BY <1>0, SinkFacts, SourceFacts, OnwardFacts
  <2>2. ~Lost(k)
    BY <1>10, <1>12, <2>1 DEF Sink, node, client
  <2>3. Total(cnt, p) = sent[j] /\ NoMore(j)
    BY <1>0, <1>7, <2>1, <2>2 DEF CleanInv, Complete
  <2>4. Total(cnt, e) = Total(cnt, p)
    <3>1. Total(cnt, e) = Written(cnt, p)
      BY DEF CleanInv, Lossless
    <3>2. cnt[p] \in Nat /\ Len(in[p]) = 0 /\ Len(pump[p].data) = 0
      BY <1>0, <1>1, <1>6, EmptyBytes
    <3> QED BY <3>1, <3>2 DEF Total, Written
  <2>5. NoMore(Source(e))'
    BY <1>10, <2>1, <2>3 DEF Source, node, client
  <2> QED BY <2>1, <2>3, <2>4, <2>5
<1> HIDE DEF w, e
<1>13. Wave' /\ Lossless(cnt)' /\ Complete(cnt)'
  BY <1>0, <1>1, <1>4, <1>6, <1>11, <1>12, CloseKeepsClean DEF CleanInv
<1> QED BY <1>9, <1>13 DEF CleanInv

\* A forwarder that cannot connect has nothing from the other side.
LEMMA ConnectFailsClean ==
  ASSUME NEW cnt \in [End -> Nat], Steady(cnt), NEW f \in 1..Hops, ConnectFails(f)
  PROVE  CleanInv(cnt)'
<1> USE DEF Steady, TypeInv, FlowInv
<1>0. /\ Near(f) \in Pump /\ Far(f) \in Pump /\ Near(f) \in End /\ Far(f) \in End
      /\ Far(f) = Writer(Near(f)) /\ Near(f) = Writer(Far(f)) /\ Opp(Near(f)) \in End
  BY ForwarderFacts, WriterFacts, OppFacts
<1>1. up[Near(f)] = "open" /\ up[Far(f)] = "none" /\ CloseEnd(Near(f)) /\ UNCHANGED <<pump, sent, saw>>
  BY DEF ConnectFails, appVars
<1>2. in' = in /\ up' = [up EXCEPT ![Near(f)] = "closed"]
  BY <1>0, <1>1, CleanCloses DEF CloseEnd
<1>3. \A d \in End : up'[d] = IF d = Near(f) THEN "closed" ELSE up[d]
  BY <1>2 DEF TypeOK
<1>4. Broken'
  <2>1. Far(f) # Near(f)
    BY FwdAssumption DEF Far, Near
  <2>2. up'[Near(f)] = "closed" /\ up'[Far(f)] = "none"
    BY <1>0, <1>1, <1>3, <2>1
  <2>3. (up[Near(f)] = "closed" /\ up[Far(f)] = "none")'
    BY <2>2 DEF Near, Far
  <2> QED BY <2>3 DEF Broken
<1>5. Orderly'
  <2> SUFFICES ASSUME NEW q \in Pump
               PROVE  /\ ~At(q, "raised")'
                      /\ up'[Writer(q)] = "closed" => pump'[q].pc \in {"off", "done"}
                      /\ At(q, "done")' => in'[q] = <<>> /\ "closed" \in {up'[q], up'[Opp(q)]}
    BY DEF Orderly
  <2>0. q \in End /\ Opp(q) \in End /\ Writer(q) \in End
    BY WriterFacts, OppFacts
  <2>1. Writer(q) = Near(f) => pump[q].pc = "off"
    <3>1. Writer(q) = Near(f) => q = Far(f)
      BY <1>0, WriterFacts
    <3>2. At(Far(f), "off")
      BY <1>0, <1>1 DEF Unstarted
    <3> QED BY <3>1, <3>2 DEF At
  <2> QED BY <1>1, <1>2, <1>3, <2>0, <2>1 DEF CleanInv, Orderly, At
<1>6. Lost(Sink(Near(f)))'
  BY <1>4, SinkFacts DEF Lost, Sink, Near, node
<1>7. Total(cnt, Opp(Near(f))) = sent[Source(Opp(Near(f)))] /\ NoMore(Source(Opp(Near(f))))'
  <2>1. Source(Opp(Near(f))) = node
    BY SinkFacts
  <2>2. up[node] = "none"
    BY <1>0, <1>1, SinkFacts
  <2>3. sent[node] = 0
    BY <2>2 DEF Chained
  <2>4. Total(cnt, Opp(Near(f))) <= 0
    BY <1>0, <2>1, <2>3 DEF StreamInv, Sent, Total
  <2>5. Total(cnt, Opp(Near(f))) \in Nat
    BY <1>0 DEF Total, TypeOK
  <2>6. NoMore(node)'
    BY <1>4 DEF NoMore, node
  <2>7. NoMore(Source(Opp(Near(f))))'
    BY <2>6 DEF Source, Opp, Near, node
  <2> QED BY <2>1, <2>3, <2>4, <2>5, <2>7
<1>8. Wave' /\ Lossless(cnt)' /\ Complete(cnt)'
  BY <1>0, <1>1, <1>2, <1>6, <1>7, CloseKeepsClean DEF CleanInv
<1> QED BY <1>5, <1>8 DEF CleanInv

\* The client, or the node, closes: all it has sent has been written.
LEMMA AppClosesClean ==
  ASSUME NEW cnt \in [End -> Nat], Steady(cnt), NEW a \in App, SeesEnd(a) \/ Leaves(a)
  PROVE  CleanInv(cnt)'
<1> USE DEF Steady, TypeInv, FlowInv
<1>0. /\ a \in End /\ a \notin Pump /\ Opp(a) \in End /\ 0 \in 0..Len(in[a])
  BY AppFacts, OppFacts DEF TypeOK
<1>1. up[a] = "open" /\ Closed(a, 0) /\ UNCHANGED <<pump, sent>>
  BY DEF SeesEnd, Leaves, appVars
<1>2. in' = in /\ up' = [up EXCEPT ![a] = "closed"]
  BY <1>0, <1>1, CleanCloses
<1>3. \A d \in End : up'[d] = IF d = a THEN "closed" ELSE up[d]
  BY <1>2 DEF TypeOK
<1>4. Orderly'
  <2> SUFFICES ASSUME NEW q \in Pump
               PROVE  /\ ~At(q, "raised")'
                      /\ up'[Writer(q)] = "closed" => pump'[q].pc \in {"off", "done"}
                      /\ At(q, "done")' => in'[q] = <<>> /\ "closed" \in {up'[q], up'[Opp(q)]}
    BY DEF Orderly
  <2>0. q \in End /\ Opp(q) \in End /\ Writer(q) \in End /\ Writer(q) # a
    BY <1>0, WriterFacts, OppFacts
  <2> QED BY <1>1, <1>2, <1>3, <2>0 DEF CleanInv, Orderly, At
<1>5. Total(cnt, Opp(a)) = sent[Source(Opp(a))]
  BY SourceFacts, AppFacts DEF CleanInv, Lossless
<1>6. NoMore(Source(Opp(a)))'
  <2>1. Source(Opp(a)) = a
    BY <1>0, SourceFacts
  <2>2. NoMore(a)'
    BY <1>0, <1>3 DEF NoMore
  <2> QED BY <2>1, <2>2 DEF Source, node, client
<1>7. Wave' /\ Lossless(cnt)' /\ Complete(cnt)'
  BY <1>0, <1>1, <1>2, <1>5, <1>6, CloseKeepsClean DEF CleanInv
<1> QED BY <1>4, <1>7 DEF CleanInv

\* A byte is sent only while something of the stream is still to come.
LEMMA SendClean ==
  ASSUME NEW cnt \in [End -> Nat], Steady(cnt), NEW b \in App, Send(b)
  PROVE  CleanInv(cnt)'
<1> USE DEF Steady, TypeInv, FlowInv
<1> DEFINE o == Opp(b)
<1>0. /\ b \in End /\ o \in End /\ o \in Pump /\ Opp(o) = b /\ Source(o) = b
      /\ \A q \in Pump : Onward(q) # o
      /\ \A a \in App : Opp(a) = o => a = b
  BY AppFacts, OppFacts, SourceFacts, OnwardFacts
<1>1. up[b] = "open" /\ Deliver(b, <<sent[b] + 1>>) /\ UNCHANGED <<pump, saw>>
  BY DEF Send
<1>2. sent'[b] = sent[b] + 1 /\ (\A a \in App \ {b} : sent'[a] = sent[a]) /\ sent[b] \in Nat
  BY FwdAssumption DEF Send, TypeOK
<1>3. up[o] = "open"
  <2>1. ASSUME up[o] # "open" PROVE FALSE
    <3>1. reset'[b]
      BY <1>0, <1>1, <2>1 DEF Deliver, TypeOK
    <3> QED BY <1>0, <3>1 DEF Clean
  <2> QED BY <2>1
<1>4. up' = up /\ Len(in'[o]) = Len(in[o]) + 1 /\ Len(in[o]) \in Nat /\ \A e \in End : e # o => in'[e] = in[e]
  <2>1. in'[o] = in[o] \o <<sent[b] + 1>> /\ up' = up /\ \A e \in End : e # o => in'[e] = in[e]
    BY <1>0, <1>1, <1>3 DEF Deliver, TypeOK
  <2>2. in[o] \in Seq(Nat) /\ <<sent[b] + 1>> \in Seq(Nat) /\ Len(<<sent[b] + 1>>) = 1
    BY <1>0, <1>2 DEF TypeOK
  <2> QED BY <2>1, <2>2, JoinedBytes
<1> HIDE DEF o
<1>5. Total(cnt, o)' = Total(cnt, o) + 1 /\ \A e \in End : e # o => Total(cnt, e)' = Total(cnt, e)
  <2>1. cnt[o] \in Nat
    BY <1>0
  <2>2. cnt[o] + Len(in'[o]) = (cnt[o] + Len(in[o])) + 1
    BY <1>4, <2>1
  <2>3. \A e \in End : e # o => cnt[e] + Len(in'[e]) = cnt[e] + Len(in[e])
    BY <1>4
  <2>4. o' = o
    BY DEF o, Opp
  <2> QED BY <2>2, <2>3, <2>4 DEF Total
<1>6. Orderly'
  <2> SUFFICES ASSUME NEW q \in Pump
               PROVE  /\ ~At(q, "raised")'
                      /\ up'[Writer(q)] = "closed" => pump'[q].pc \in {"off", "done"}
                      /\ At(q, "done")' => in'[q] = <<>> /\ "closed" \in {up'[q], up'[Opp(q)]}
    BY DEF Orderly
  <2>0. q \in End
    BY WriterFacts
  <2>1. At(o, "done") => FALSE
    BY <1>0, <1>1, <1>3 DEF CleanInv, Orderly
  <2> QED BY <1>1, <1>4, <2>0, <2>1 DEF CleanInv, Orderly, At
<1>7. \A k \in App : (Lost(k) => Lost(k)') /\ (NoMore(k) => NoMore(k)')
  BY OverStays
<1>8. Wave'
  <2> SUFFICES ASSUME NEW p \in Pump, up'[p] = "closed" PROVE up'[Opp(p)] = "closed" \/ Lost(Sink(p))'
    BY DEF Wave
  <2>2. PICK k \in App : k = Sink(p)
    BY WriterFacts, SinkFacts
  <2>3. Lost(k) => Lost(k)'
    BY <1>7
  <2> QED BY <1>4, <2>2, <2>3 DEF CleanInv, Wave, Sink, node, client
<1>9. Lossless(cnt)'
  <2>1. ASSUME NEW a \in App PROVE Total(cnt, Opp(a))' = sent'[a]
    <3>1. CASE a = b
      BY <1>2, <1>5, <3>1 DEF CleanInv, Lossless, o
    <3>2. CASE a # b
      BY <1>0, <1>2, <1>5, <3>2, AppFacts, OppFacts DEF CleanInv, Lossless
    <3> QED BY <3>1, <3>2
  <2>2. ASSUME NEW p \in Pump PROVE Total(cnt, Onward(p))' = Written(cnt, p)'
    BY <1>0, <1>1, <1>5, OnwardFacts DEF CleanInv, Lossless, Written
  <2> QED BY <2>1, <2>2 DEF Lossless
<1>10. Complete(cnt)'
  <2> SUFFICES ASSUME NEW e \in End, up'[Opp(e)] = "closed", ~Lost(Sink(e))'
               PROVE  Total(cnt, e)' = sent'[Source(e)] /\ NoMore(Source(e))'
    BY DEF Complete, Source
  <2>1. PICK k \in App, j \in App : k = Sink(e) /\ j = Source(e)
    BY SinkFacts, SourceFacts
  <2>2. up[Opp(e)] = "closed" /\ ~Lost(k)
    BY <1>4, <1>7, <2>1 DEF Sink, node, client
  <2>3. Total(cnt, e) = sent[j] /\ NoMore(j)
    BY <2>1, <2>2 DEF CleanInv, Complete
  <2>4. j # b
    <3>1. ASSUME j = b, b = node, Broken PROVE FALSE
      <4>1. PICK f \in 1..Hops : up[Far(f)] = "none"
        BY <3>1 DEF Broken
      <4>2. up[node] = "none"
        BY <4>1, SinkFacts, ForwarderFacts, WriterFacts
      <4> QED BY <1>1, <3>1, <4>2
    <3> QED BY <1>1, <2>3, <3>1 DEF NoMore
  <2>5. e # o
    BY <1>0, <2>1, <2>4
  <2>6. NoMore(Source(e))'
    BY <1>7, <2>1, <2>3 DEF Source, node, client
  <2> QED BY <1>2, <1>5, <2>1, <2>3, <2>4, <2>5, <2>6
<1> QED BY <1>6, <1>8, <1>9, <1>10 DEF CleanInv

\* A pump writes only to a socket whose other end is still to take it.
LEMMA WriteClean ==
  ASSUME NEW cnt \in [End -> Nat], Steady(cnt), NEW p \in Pump, Write(p)
  PROVE  CleanInv(cnt)'
<1> USE DEF Steady, TypeInv, FlowInv
<1> DEFINE o == Onward(p)
           w == Writer(p)
           len == Len(pump[p].data)
<1>0. /\ p \in End /\ w \in End /\ w \in Pump /\ o \in End /\ Opp(o) = w /\ Opp(w) = o
      /\ \A q \in Pump : Onward(q) = o => q = p
      /\ \A a \in App : Opp(a) # o
  BY WriterFacts, OnwardFacts DEF Onward
<1>1. /\ At(p, "write") /\ up[w] = "open" /\ Deliver(w, pump[p].data) /\ UNCHANGED <<sent, saw>>
      /\ pump' = [pump EXCEPT ![p] = [pc |-> "drain", data |-> <<>>]]
  BY DEF Write, appVars
<1>2. up[o] = "open"
  <2>1. ASSUME up[o] # "open" PROVE FALSE
    <3>1. reset'[w]
      BY <1>0, <1>1, <2>1 DEF Deliver, TypeOK
    <3> QED BY <1>0, <3>1 DEF Clean
  <2> QED BY <2>1
<1>3. /\ up' = up /\ Len(in'[o]) = Len(in[o]) + len /\ Len(in[o]) \in Nat /\ len \in Nat
      /\ \A e \in End : e # o => in'[e] = in[e]
  <2>1. in' = [in EXCEPT ![o] = @ \o pump[p].data] /\ up' = up
    BY <1>0, <1>1, <1>2 DEF Deliver
  <2>2. in \in [End -> Seq(Nat)] /\ in[o] \in Seq(Nat) /\ pump[p].data \in Seq(Nat)
    BY <1>0 DEF TypeOK
  <2> HIDE DEF o
  <2>3. in'[o] = in[o] \o pump[p].data /\ \A e \in End : e # o => in'[e] = in[e]
    BY <1>0, <2>1, <2>2
  <2>4. Len(in[o] \o pump[p].data) = Len(in[o]) + Len(pump[p].data)
    BY <2>2, JoinedBytes
  <2>5. Len(in[o]) \in Nat /\ Len(pump[p].data) \in Nat
    BY <2>2
  <2> QED BY <2>1, <2>3, <2>4, <2>5
<1>4. /\ pump'[p].pc = "drain" /\ Len(pump'[p].data) = 0
      /\ \A q \in Pump \ {p} : pump'[q] = pump[q]
  BY <1>1, EmptyBytes DEF TypeOK
<1>5. cnt[o] \in Nat /\ cnt[p] \in Nat /\ o' = o /\ Opp(w)' = Opp(w)
  BY <1>0 DEF Onward, Opp, Writer
<1> HIDE DEF o, w, len
<1>6. Total(cnt, o)' = Total(cnt, o) + len /\ \A e \in End : e # o => Total(cnt, e)' = Total(cnt, e)
  <2>1. cnt[o] + Len(in'[o]) = (cnt[o] + Len(in[o])) + len
    BY <1>3, <1>5
  <2>2. \A e \in End : e # o => cnt[e] + Len(in'[e]) = cnt[e] + Len(in[e])
    BY <1>3
  <2> QED BY <1>5, <2>1, <2>2 DEF Total
<1>7. Written(cnt, p)' = Written(cnt, p) + len /\ \A q \in Pump \ {p} : Written(cnt, q)' = Written(cnt, q)
  <2>1. cnt[p] - Len(pump'[p].data) = (cnt[p] - len) + len
    BY <1>3, <1>4, <1>5
  <2>2. \A q \in Pump \ {p} : cnt[q] - Len(pump'[q].data) = cnt[q] - Len(pump[q].data)
    BY <1>4
  <2> QED BY <2>1, <2>2 DEF Written, len
<1>8. Orderly'
  <2> SUFFICES ASSUME NEW q \in Pump
               PROVE  /\ ~At(q, "raised")'
                      /\ up'[Writer(q)] = "closed" => pump'[q].pc \in {"off", "done"}
                      /\ At(q, "done")' => in'[q] = <<>> /\ "closed" \in {up'[q], up'[Opp(q)]}
    BY DEF Orderly
  <2>1. q \in End
    BY WriterFacts
  <2>2. CASE q = p
    BY <1>1, <1>3, <1>4, <2>2 DEF At, w
  <2>3. CASE q # p
    <3>1. At(q, "done") => q # o
      BY <1>0, <1>1, <1>2 DEF CleanInv, Orderly
    <3> QED BY <1>3, <1>4, <2>1, <2>3, <3>1 DEF CleanInv, Orderly, At
  <2> QED BY <2>2, <2>3
<1>9. \A k \in App : (Lost(k) => Lost(k)') /\ (NoMore(k) => NoMore(k)')
  BY OverStays
<1>10. Wave'
  <2> SUFFICES ASSUME NEW q \in Pump, up'[q] = "closed" PROVE up'[Opp(q)] = "closed" \/ Lost(Sink(q))'
    BY DEF Wave
  <2>1. PICK k \in App : k = Sink(q)
    BY WriterFacts, SinkFacts
  <2>2. Lost(k) => Lost(k)'
    BY <1>9
  <2> QED BY <1>3, <2>1, <2>2 DEF CleanInv, Wave, Sink, node, client
<1>11. Lossless(cnt)'
  <2>1. ASSUME NEW a \in App PROVE Total(cnt, Opp(a))' = sent'[a]
    BY <1>0, <1>1, <1>6, AppFacts, OppFacts DEF CleanInv, Lossless
  <2>2. ASSUME NEW q \in Pump PROVE Total(cnt, Onward(q))' = Written(cnt, q)'
    <3>1. CASE q = p
      BY <1>6, <1>7, <3>1 DEF CleanInv, Lossless, o
    <3>2. CASE q # p
      BY <1>0, <1>6, <1>7, <3>2, OnwardFacts DEF CleanInv, Lossless
    <3> QED BY <3>1, <3>2
  <2> QED BY <2>1, <2>2 DEF Lossless
<1>12. Complete(cnt)'
  <2> SUFFICES ASSUME NEW e \in End, up'[Opp(e)] = "closed", ~Lost(Sink(e))'
               PROVE  Total(cnt, e)' = sent'[Source(e)] /\ NoMore(Source(e))'
    BY DEF Complete, Source
  <2>1. PICK k \in App, j \in App : k = Sink(e) /\ j = Source(e)
    BY SinkFacts, SourceFacts
  <2>2. up[Opp(e)] = "closed" /\ ~Lost(k)
    BY <1>3, <1>9, <2>1 DEF Sink, node, client
  <2>3. Total(cnt, e) = sent[j] /\ NoMore(j)
    BY <2>1, <2>2 DEF CleanInv, Complete
  <2>4. e # o
    BY <1>0, <1>1, <2>2
  <2>5. NoMore(Source(e))'
    BY <1>9, <2>1, <2>3 DEF Source, node, client
  <2> QED BY <1>1, <1>6, <2>1, <2>3, <2>4, <2>5
<1> QED BY <1>8, <1>10, <1>11, <1>12 DEF CleanInv

\* What a pump, the client or the node takes was there already.
LEMMA TakesClean ==
  ASSUME NEW cnt \in [End -> Nat], Steady(cnt), NEW c,
         (\E p \in Pump : Read(p)) \/ (\E a \in App : Receive(a)),
         \A e \in End : Total(c, e)' = Total(cnt, e),
         \A q \in Pump : Written(c, q)' = Written(cnt, q)
  PROVE  CleanInv(c)'
<1> USE DEF Steady, TypeInv, FlowInv
<1>1. UNCHANGED <<up, sent>>
  BY DEF Read, Receive, appVars
<1>2. Wave' /\ Lossless(c)' /\ Complete(c)'
  BY <1>1, MovesKeepClean DEF CleanInv
<1>3. \A q \in Pump : (At(q, "raised")' => At(q, "raised")) /\ (At(q, "done")' => At(q, "done") /\ in'[q] = in[q])
  <2>1. ASSUME NEW p \in Pump, Read(p), NEW q \in Pump
        PROVE  (At(q, "raised")' => At(q, "raised")) /\ (At(q, "done")' => At(q, "done") /\ in'[q] = in[q])
    BY <2>1, WriterFacts DEF Read, At, TypeOK
  <2>2. ASSUME NEW a \in App, Receive(a), NEW q \in Pump
        PROVE  (At(q, "raised")' => At(q, "raised")) /\ (At(q, "done")' => At(q, "done") /\ in'[q] = in[q])
    BY <2>2, WriterFacts, AppFacts DEF Receive, At, TypeOK
  <2> QED BY <2>1, <2>2
<1>4. \A q \in Pump : pump[q].pc \in {"off", "done"} => pump'[q].pc = pump[q].pc
  BY DEF Read, Receive, At, TypeOK
<1>5. Orderly'
  BY <1>1, <1>3, <1>4 DEF CleanInv, Orderly
<1> QED BY <1>2, <1>5 DEF CleanInv

\* Nothing moves, and a pump goes on to read.
LEMMA DrainClean ==
  ASSUME NEW cnt \in [End -> Nat], Steady(cnt), (\E p \in Pump : Drain(p)) \/ UNCHANGED vars
  PROVE  CleanInv(cnt)'
<1> USE DEF Steady, TypeInv, FlowInv
<1>1. UNCHANGED <<up, in, sent>>
  BY DEF Drain, sockVars, appVars, vars
<1>2. \A q \in Pump : pump'[q].data = pump[q].data
  <2>1. ASSUME NEW p \in Pump, Drain(p), NEW q \in Pump PROVE pump'[q].data = pump[q].data
    BY <2>1 DEF Drain, TypeOK
  <2> QED BY <2>1 DEF vars
<1>3. Wave' /\ Lossless(cnt)' /\ Complete(cnt)'
  <2>1. \A e \in End : Total(cnt, e)' = Total(cnt, e)
    BY <1>1 DEF Total
  <2>2. \A q \in Pump : Written(cnt, q)' = Written(cnt, q)
    BY <1>2 DEF Written
  <2> QED BY <1>1, <2>1, <2>2, MovesKeepClean DEF CleanInv
<1>4. \A q \in Pump : /\ At(q, "raised")' => At(q, "raised")
                      /\ At(q, "done")' => At(q, "done")
                      /\ pump[q].pc \in {"off", "done"} => pump'[q].pc = pump[q].pc
  BY DEF Drain, vars, At, TypeOK
<1>5. Orderly'
  BY <1>1, <1>4 DEF CleanInv, Orderly
<1> QED BY <1>3, <1>5 DEF CleanInv

\* A forwarder opens a socket, and its pumps start.
LEMMA ConnectsClean ==
  ASSUME NEW cnt \in [End -> Nat], Steady(cnt), NEW f \in 1..Hops, Connects(f)
  PROVE  CleanInv(cnt)'
<1> USE DEF Steady, TypeInv, FlowInv
<1>0. /\ Near(f) \in Pump /\ Far(f) \in Pump /\ Near(f) \in End /\ Far(f) \in End
      /\ Far(f) = Writer(Near(f)) /\ Near(f) = Writer(Far(f)) /\ Opp(Far(f)) \in End
      /\ Near(f) # Far(f) /\ Near(f) # Opp(Far(f))
  <2>1. Near(f) # Opp(Far(f))
    BY FwdAssumption DEF Near, Far, Opp
  <2> QED BY <2>1, ForwarderFacts, WriterFacts, OppFacts
<1>1. up[Near(f)] = "open" /\ up[Far(f)] = "none" /\ UNCHANGED <<in, sent, saw>> /\ up[Opp(Far(f))] = "none"
  BY <1>0 DEF Connects, appVars, Paired
<1>2. \A e \in End : up'[e] = IF e \in {Far(f), Opp(Far(f))} THEN "open" ELSE up[e]
  BY <1>0 DEF Connects, TypeOK
<1>3. \A e \in End : up'[e] = "closed" <=> up[e] = "closed"
  BY <1>1, <1>2
<1>4. /\ pump'[Near(f)].pc = "read" /\ pump'[Far(f)].pc = "read"
      /\ \A q \in Pump \ {Near(f), Far(f)} : pump'[q] = pump[q]
      /\ \A q \in Pump : pump'[q].data = pump[q].data
  <2>1. pump \in [Pump -> PumpState]
    BY DEF TypeOK, PumpState
  <2>2. \A q \in Pump : pump'[q] = IF q \in {Near(f), Far(f)} THEN [pump[q] EXCEPT !.pc = "read"] ELSE pump[q]
    BY <1>0, <2>1 DEF Connects
  <2> QED BY <1>0, <2>1, <2>2 DEF PumpState
<1>5. Orderly'
  <2> SUFFICES ASSUME NEW q \in Pump
               PROVE  /\ ~At(q, "raised")'
                      /\ up'[Writer(q)] = "closed" => pump'[q].pc \in {"off", "done"}
                      /\ At(q, "done")' => in'[q] = <<>> /\ "closed" \in {up'[q], up'[Opp(q)]}
    BY DEF Orderly
  <2>1. q \in End /\ Opp(q) \in End /\ Writer(q) \in End
    BY WriterFacts, OppFacts
  <2>2. CASE q \in {Near(f), Far(f)}
    BY <1>0, <1>1, <1>2, <1>4, <2>2 DEF At
  <2>3. CASE q \notin {Near(f), Far(f)}
    BY <1>1, <1>3, <1>4, <2>1, <2>3 DEF CleanInv, Orderly, At
  <2> QED BY <2>2, <2>3
<1>6. \A k \in App : (Lost(k) => Lost(k)') /\ (NoMore(k) => NoMore(k)')
  BY OverStays
<1>7. Wave'
  <2> SUFFICES ASSUME NEW q \in Pump, up'[q] = "closed" PROVE up'[Opp(q)] = "closed" \/ Lost(Sink(q))'
    BY DEF Wave
  <2>1. q \in End /\ Opp(q) \in End
    BY WriterFacts, OppFacts
  <2>2. PICK k \in App : k = Sink(q)
    BY <2>1, SinkFacts
  <2>3. Lost(k) => Lost(k)'
    BY <1>6
  <2> QED BY <1>3, <2>1, <2>2, <2>3 DEF CleanInv, Wave, Sink, node, client
<1>8. Lossless(cnt)'
  BY <1>1, <1>4 DEF CleanInv, Lossless, Total, Written
<1>9. Complete(cnt)'
  <2> SUFFICES ASSUME NEW e \in End, up'[Opp(e)] = "closed", ~Lost(Sink(e))'
               PROVE  Total(cnt, e)' = sent'[Source(e)] /\ NoMore(Source(e))'
    BY DEF Complete, Source
  <2>1. PICK k \in App, j \in App : k = Sink(e) /\ j = Source(e)
    BY SinkFacts, SourceFacts
  <2>2. up[Opp(e)] = "closed" /\ ~Lost(k)
    BY <1>3, <1>6, <2>1, OppFacts DEF Sink, node, client
  <2>3. Total(cnt, e) = sent[j] /\ NoMore(j)
    BY <2>1, <2>2 DEF CleanInv, Complete
  <2>4. NoMore(Source(e))'
    BY <1>6, <2>1, <2>3 DEF Source, node, client
  <2> QED BY <1>1, <2>1, <2>3, <2>4 DEF Total
<1> QED BY <1>5, <1>7, <1>8, <1>9 DEF CleanInv

\* Without a reset and without a death no pump fails.
LEMMA NoFailure ==
  ASSUME NEW cnt, Steady(cnt)
  PROVE  /\ \A p \in Pump : ~ReadRaises(p) /\ ~DrainRaises(p) /\ ~Raised(p)
         /\ \A f \in 1..Hops : ~Killed(f)
<1>1. ASSUME NEW p \in Pump PROVE ~ReadRaises(p) /\ ~DrainRaises(p) /\ ~Raised(p)
  <2>1. p \in End /\ Writer(p) \in End
    BY WriterFacts
  <2> QED BY <2>1 DEF Steady, Clean, CleanInv, Orderly, ReadRaises, DrainRaises, Raised, At
<1>2. \A f \in 1..Hops : ~Killed(f)
  BY DEF Steady, Clean, Killed
<1> QED BY <1>1, <1>2

LEMMA EndStep == TypeInv /\ TypeInv' /\ EndInv /\ [Next]_vars => EndInv'
<1> SUFFICES ASSUME TypeInv, TypeInv', FlowInv, [Next]_vars,
                    NEW cnt \in [End -> Nat], StreamInv(cnt), Clean => CleanInv(cnt)
             PROVE  FlowInv' /\ \E c \in [End -> Nat] : StreamInv(c)' /\ (Clean' => CleanInv(c)')
  BY DEF EndInv
<1>1. FlowInv' /\ Advances
  BY FlowStep, AdvanceStep
<1>2. Clean' => Steady(cnt)
  BY <1>1, OverStays DEF Steady
<1>3. CASE Others
  <2>1. StreamInv(cnt)'
    BY <1>3, OthersKeepStream
  <2>2. ASSUME Clean' PROVE CleanInv(cnt)'
    <3>1. Steady(cnt)
      BY <1>2, <2>2
    <3> QED BY <1>3, <3>1, NoFailure, ConnectsClean, ConnectFailsClean, ReadEndsClean, WriteClean, DrainClean,
               SendClean, AppClosesClean DEF Others, Handler
  <2> QED BY <1>1, <2>1, <2>2
<1>4. CASE \E p \in Pump : Read(p)
  <2>1. PICK c \in [End -> Nat] : /\ StreamInv(c)'
                                  /\ \A e \in End : Total(c, e)' = Total(cnt, e)
                                  /\ \A q \in Pump : Written(c, q)' = Written(cnt, q)
    BY <1>4, ReadKeepsStream DEF TypeInv
  <2>2. Clean' => CleanInv(c)'
    BY <1>2, <1>4, <2>1, TakesClean
  <2> QED BY <1>1, <2>1, <2>2
<1>5. CASE \E a \in App : Receive(a)
  <2>1. PICK c \in [End -> Nat] : /\ StreamInv(c)'
                                  /\ \A e \in End : Total(c, e)' = Total(cnt, e)
                                  /\ \A q \in Pump : Written(c, q)' = Written(cnt, q)
    BY <1>5, ReceiveKeepsStream DEF TypeInv
  <2>2. Clean' => CleanInv(c)'
    BY <1>2, <1>5, <2>1, TakesClean
  <2> QED BY <1>1, <2>1, <2>2
<1> QED BY <1>3, <1>4, <1>5, NextParts

LEMMA EndInit == Init => EndInv
<1> SUFFICES ASSUME Init PROVE EndInv
  OBVIOUS
<1> DEFINE zero == [e \in End |-> 0]
<1>0. /\ \A e \in End : /\ zero[e] = 0 /\ in[e] = <<>> /\ Len(in[e]) = 0 /\ Opp(e) \in End
                        /\ up[e] = IF e[1] = 1 THEN "open" ELSE "none"
      /\ \A p \in Pump : p \in End /\ Writer(p) \in End /\ pump[p].data = <<>> /\ Len(pump[p].data) = 0
      /\ \A p \in Pump : Onward(p) \in End /\ pump[p].pc = "off" /\ Writer(p) \in Pump
      /\ \A a \in App : a \in End /\ Opp(a) \in End /\ sent[a] = 0 /\ saw[a] = "none"
  BY EmptyBytes, WriterFacts, AppFacts, OppFacts, OnwardFacts DEF Init
<1>1. StreamInv(zero)
  BY StreamInit
<1> HIDE DEF zero
<1>2. FlowInv
  <2>1. Chained
    <3>1. \A k \in 1..(Hops + 1) : <<k, "s">> \in End
      BY EndPairs
    <3>2. client \in App /\ node \in App
      BY DEF App
    <3> QED BY <1>0, <3>1, <3>2 DEF Chained, client
  <2>2. Ended
    BY <1>0 DEF Ended
  <2>3. Together
    BY <1>0 DEF Together, At
  <2> QED BY <2>1, <2>2, <2>3 DEF FlowInv
<1>3. \A e \in End : up[e] # "closed"
  BY <1>0
<1>4. Orderly /\ Wave
  BY <1>0, <1>3 DEF Orderly, Wave, At
<1>5. Lossless(zero) /\ Complete(zero)
  BY <1>0, <1>3 DEF Lossless, Complete, Total, Written
<1> QED BY <1>1, <1>2, <1>4, <1>5 DEF EndInv, CleanInv, zero

LEMMA EndInvariant == Spec => []EndInv
<1>1. Init => EndInv
  BY EndInit
<1>2. TypeInv /\ TypeInv' /\ EndInv /\ [Next]_vars => EndInv'
  BY EndStep
<1> QED BY <1>1, <1>2, TypeInvariant, PTL DEF Spec

\* A stream that ends, at the client or at the node, has ended with all that the
\* other one sent, through any number of forwarders, unless a connection was reset
\* or a forwarder killed (pump, handler).
THEOREM EndCorrect == Spec => []EndIsComplete
<1>1. TypeInv /\ EndInv => EndIsComplete
  <2> SUFFICES ASSUME TypeInv, FlowInv, NEW cnt \in [End -> Nat], StreamInv(cnt), Clean => CleanInv(cnt),
                      NEW a \in App, saw[a] = "eof", ~killed, \A e \in End : ~reset[e]
               PROVE  Len(got[a]) = sent[Peer(a)]
    BY DEF EndInv, EndIsComplete
  <2>1. CleanInv(cnt)
    BY DEF Clean
  <2>2. a \in End /\ Sink(a) = a /\ Source(a) = Peer(a)
    BY AppFacts, SinkFacts
  <2>3. up[a] = "closed" /\ in[a] = <<>> /\ up[Opp(a)] = "closed"
    BY DEF FlowInv, Ended
  <2>4. ~Lost(a)
    <3>1. ASSUME a = node, Broken PROVE FALSE
      <4>1. PICK f \in 1..Hops : up[Far(f)] = "none"
        BY <3>1 DEF Broken
      <4>2. up[node] = "none"
        BY <4>1, SinkFacts, ForwarderFacts, WriterFacts DEF FlowInv, TypeInv
      <4> QED BY <2>3, <3>1, <4>2
    <3> QED BY <3>1 DEF Lost
  <2>5. Total(cnt, a) = sent[Peer(a)]
    BY <2>1, <2>2, <2>3, <2>4 DEF CleanInv, Complete
  <2>6. Len(got[a]) = cnt[a] /\ cnt[a] \in Nat /\ Len(in[a]) = 0
    BY <2>2, <2>3, EmptyBytes DEF StreamInv, Numbered
  <2> QED BY <2>5, <2>6 DEF Total
<1> QED BY <1>1, TypeInvariant, EndInvariant, PTL

=============================================================================
