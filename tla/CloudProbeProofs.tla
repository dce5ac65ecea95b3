--------------------------- MODULE CloudProbeProofs ---------------------------
(***************************************************************************)
(* What holds of the cloud collectors on every host, for every selection   *)
(* and whatever their services answer.                                     *)
(***************************************************************************)
EXTENDS CloudProbe, TLAPS

----------------------------------------------------------------------------
\* The inductive invariant.

StepsOf(p) ==
    CASE p = "ec2" -> {"token", "versions", "first", "rest"}
      [] p = "azure" -> {"versions", "document"}
      [] p = "oci" -> {"document", "vnics", "volumes"}
      [] p = "alibaba" -> {"tree"}
      [] p = "openstack" -> {"tree", "nova"}
      [] p = "linode" -> {}
      [] OTHER -> {"document"}

\* The requests that a collector at s, whichever it is, has not sent yet.
Ahead(s) ==
    CASE s = "gate" -> Steps
      [] s = "token" -> Steps \ {"tree", "nova"}
      [] s = "versions" -> Steps \ {"tree", "nova", "token"}
      [] s = "first" -> {"first", "rest"}
      [] s = "document" -> {"document", "vnics", "volumes"}
      [] s = "vnics" -> {"vnics", "volumes"}
      [] s = "tree" -> {"tree", "nova"}
      [] s = "done" -> {}
      [] OTHER -> {s}

Heard(p, s) == log[p][s] \in {"ok", "malformed", "cut"}

\* Where a collector is, what it has sent, and what let it get there.
PlaceOK(p) ==
    /\ pc[p] \in {"gate", "done"} \cup StepsOf(p)
    /\ p \notin selection => pc[p] = "gate"
    /\ pc[p] # "gate" => Gate(p) \/ result[p] = "nil"
    /\ pc[p] \in {"vnics", "volumes"} => Received(p, "document")
    /\ pc[p] = "rest" => Received(p, "first")
    /\ \A s \in Ahead(pc[p]) : log[p][s] = "none"
    /\ \A s \in Steps : Heard(p, s) => Served(p, s)

\* What a collector said, and what made it say so.
SaidOK(p) ==
    /\ pc[p] = "done" <=> result[p] # "none"
    /\ result[p] = "info" => p \in Found
    /\ result[p] = "err" => \E s \in Steps : Heard(p, s)
    /\ result[p] \in {"nil", "err"} => ~ Gate(p) \/ \E s \in Steps : log[p][s] \notin {"ok", "none"}

ProbeInv == TypeOK /\ \A p \in Providers : PlaceOK(p) /\ SaidOK(p)

----------------------------------------------------------------------------
LEMMA InitProbeInv == Init => ProbeInv
<1> SUFFICES ASSUME Init PROVE ProbeInv
  OBVIOUS
<1>1. TypeOK
  BY DEF Init, TypeOK
<1>2. ASSUME NEW p \in Providers PROVE PlaceOK(p) /\ SaidOK(p)
  BY <1>2 DEF Init, PlaceOK, SaidOK, Ahead, Heard
<1> QED BY <1>1, <1>2 DEF ProbeInv

\* A request is answered once, and only by a service that has what is asked.
LEMMA SendIsHeard ==
  ASSUME TypeOK, NEW p \in Providers, NEW s \in Steps, NEW f \in Fates, Send(p, s, f)
  PROVE  /\ log' \in [Providers -> [Steps -> Fates \cup {"none"}]]
         /\ log'[p][s] = f
         /\ \A t \in Steps \ {s} : log'[p][t] = log[p][t]
         /\ \A q \in Providers \ {p} : log'[q] = log[q]
         /\ f \in {"ok", "malformed", "cut"} => Served(p, s)
         /\ UNCHANGED <<host, selection, ctx>>
<1>1. log' = [log EXCEPT ![p][s] = f] /\ f \in FatesOf(p, s)
  BY DEF Send
<1>2. f \in {"ok", "malformed", "cut"} => Served(p, s)
  BY <1>1 DEF FatesOf
<1> QED BY <1>1, <1>2 DEF Send, TypeOK

\* The collectors do not disturb each other.
LEMMA OthersKeepProbeInv ==
  ASSUME ProbeInv, NEW p \in Providers,
         UNCHANGED <<host, selection>>,
         pc'[p] = pc[p], log'[p] = log[p], result'[p] = result[p]
  PROVE  PlaceOK(p)' /\ SaidOK(p)'
<1>1. PlaceOK(p) /\ SaidOK(p)
  BY DEF ProbeInv
<1>2. /\ \A s \in Steps : (Received(p, s)' <=> Received(p, s)) /\ (Heard(p, s)' <=> Heard(p, s))
      /\ \A s \in Steps : Served(p, s)' <=> Served(p, s)
      /\ Gate(p)' <=> Gate(p)
  BY DEF Received, Heard, Served, Gate, OpenOr, OnGCE, OnAlibaba, OnOpenStack, OnDigitalOcean,
         OnOCI, OnEC2, OnAzure, OnLinode, OnScaleway
<1>3. PlaceOK(p)'
  BY <1>1, <1>2 DEF PlaceOK, Steps, Received
<1>4. (p \in Found)' <=> p \in Found
  BY <1>2 DEF Found
<1>5. SaidOK(p)'
  BY <1>1, <1>2, <1>4 DEF SaidOK
<1> QED BY <1>3, <1>5

\* What else a step may do once the request of step s is answered with f: go
\* on to a later request n, or return r.
GoesOn(p, s, f, n) ==
    /\ GoTo(p, n)
    /\ n \in StepsOf(p) /\ Ahead(n) \subseteq Ahead(s) \ {s}
    /\ n \in {"vnics", "volumes"} => Received(p, "document")'
    /\ n = "rest" => Received(p, "first")'

Returns(p, s, f, r) ==
    /\ Return(p, r)
    /\ r \in {"nil", "info", "err"}
    /\ r = "info" => \E t \in Steps \ {"token", "versions"} : Received(p, t)'
    /\ r = "err" => f \in {"ok", "malformed", "cut"}
    /\ r \in {"nil", "err"} => f # "ok"

Answered(p, s, f) ==
    /\ s \in StepsOf(p) /\ f \in Fates
    /\ Send(p, s, f)
    /\ \/ \E n \in StepsOf(p) : GoesOn(p, s, f, n)
       \/ \E r \in {"nil", "info", "err"} : Returns(p, s, f, r)

LEMMA StepsAreSteps ==
  ASSUME NEW p \in Providers, NEW s \in StepsOf(p)
  PROVE  s \in Steps /\ s \in Ahead(s) /\ s \notin {"gate", "done"}
BY DEF Providers, StepsOf, Steps, Ahead

LEMMA AnsweredKeepsProbeInv ==
  ASSUME ProbeInv, NEW p \in Providers, NEW s, NEW f, Answered(p, s, f)
  PROVE  ProbeInv'
<1>1. s \in Steps /\ s \in Ahead(s) /\ s \notin {"gate", "done"} /\ f \in Fates /\ Send(p, s, f)
  BY StepsAreSteps DEF Answered
<1>2. /\ log' \in [Providers -> [Steps -> Fates \cup {"none"}]]
      /\ log'[p][s] = f
      /\ \A t \in Steps \ {s} : log'[p][t] = log[p][t]
      /\ \A q \in Providers \ {p} : log'[q] = log[q]
      /\ f \in {"ok", "malformed", "cut"} => Served(p, s)
      /\ UNCHANGED <<host, selection, ctx>>
  BY <1>1, SendIsHeard DEF ProbeInv
<1>3. TypeOK /\ PlaceOK(p) /\ SaidOK(p) /\ pc[p] = s
  BY <1>1 DEF ProbeInv, Send
<1>4. /\ pc[p] # "gate" /\ p \in selection
      /\ result[p] = "none" /\ Gate(p) /\ Gate(p)'
  <2>1. result[p] = "none" /\ p \in selection /\ Gate(p)
    BY <1>1, <1>3 DEF PlaceOK, SaidOK
  <2> QED
    BY <1>1, <1>2, <1>3, <2>1
       DEF Gate, OpenOr, OnGCE, OnAlibaba, OnOpenStack, OnDigitalOcean, OnOCI, OnEC2, OnAzure,
           OnLinode, OnScaleway
<1>5. \A t \in Steps : Served(p, t)' <=> Served(p, t)
  BY <1>2 DEF Served
<1>6. \A t \in Steps : Heard(p, t)' => Served(p, t)'
  BY <1>2, <1>3, <1>5 DEF Heard, PlaceOK
<1>7. CASE \E n \in StepsOf(p) : GoesOn(p, s, f, n)
  <2>1. PICK n \in StepsOf(p) : GoesOn(p, s, f, n)
    BY <1>7
  <2>2. /\ pc' \in [Providers -> {"gate", "done"} \cup Steps] /\ pc'[p] = n /\ n \in Steps
        /\ n \notin {"gate", "done"}
        /\ \A q \in Providers \ {p} : pc'[q] = pc[q]
        /\ result' = result
    BY <1>3, <2>1, StepsAreSteps DEF GoesOn, GoTo, TypeOK
  <2>3. \A t \in Ahead(n) : log'[p][t] = "none"
    <3>1. ASSUME NEW t \in Ahead(n) PROVE t \in Ahead(s) \ {s} /\ t \in Steps
      BY <2>1, <2>2 DEF GoesOn, Ahead, Steps
    <3> QED BY <1>2, <1>3, <3>1 DEF PlaceOK
  <2>4. PlaceOK(p)'
    BY <1>2, <1>4, <1>6, <2>1, <2>2, <2>3 DEF PlaceOK, GoesOn
  <2>5. SaidOK(p)'
    BY <1>4, <2>2 DEF SaidOK
  <2>6. ASSUME NEW q \in Providers \ {p} PROVE PlaceOK(q)' /\ SaidOK(q)'
    BY <1>2, <2>2, OthersKeepProbeInv
  <2>7. TypeOK'
    BY <1>2, <1>3, <2>2 DEF TypeOK
  <2> QED BY <2>4, <2>5, <2>6, <2>7 DEF ProbeInv
<1>8. CASE \E r \in {"nil", "info", "err"} : Returns(p, s, f, r)
  <2>1. PICK r \in {"nil", "info", "err"} : Returns(p, s, f, r)
    BY <1>8
  <2>2. /\ pc' \in [Providers -> {"gate", "done"} \cup Steps] /\ pc'[p] = "done"
        /\ \A q \in Providers \ {p} : pc'[q] = pc[q]
        /\ result' \in [Providers -> {"none", "nil", "info", "err"}] /\ result'[p] = r
        /\ \A q \in Providers \ {p} : result'[q] = result[q]
    BY <1>3, <2>1 DEF Returns, Return, TypeOK
  <2>3. PlaceOK(p)'
    BY <1>2, <1>4, <1>6, <2>2 DEF PlaceOK, Ahead
  <2>4. SaidOK(p)'
    <3>1. r = "info" => (p \in Found)'
      BY <2>1 DEF Returns, Found
    <3>2. r = "err" => \E t \in Steps : Heard(p, t)'
      BY <1>1, <1>2, <2>1 DEF Returns, Heard
    <3>3. r \in {"nil", "err"} => \E t \in Steps : log'[p][t] \notin {"ok", "none"}
      BY <1>1, <1>2, <2>1 DEF Returns, Fates
    <3> QED BY <2>2, <3>1, <3>2, <3>3 DEF SaidOK
  <2>5. ASSUME NEW q \in Providers \ {p} PROVE PlaceOK(q)' /\ SaidOK(q)'
    BY <1>2, <2>2, OthersKeepProbeInv
  <2>6. TypeOK'
    BY <1>2, <1>3, <2>2 DEF TypeOK
  <2> QED BY <2>3, <2>4, <2>5, <2>6 DEF ProbeInv
<1> QED BY <1>7, <1>8 DEF Answered

\* Every request of every collector is of that kind.
LEMMA ActionsAreAnswered ==
  ASSUME ProbeInv, NEW f \in Fates
  PROVE  /\ Gce(f) => Answered("gce", "document", f)
         /\ Scaleway(f) => Answered("scaleway", "document", f)
         /\ DigitalOcean(f) => Answered("digital_ocean", "document", f)
         /\ Alibaba(f) => Answered("alibaba", "tree", f)
         /\ AzureVersions(f) => Answered("azure", "versions", f)
         /\ Azure(f) => Answered("azure", "document", f)
         /\ OciInstance(f) => Answered("oci", "document", f)
         /\ OciVnics(f) => Answered("oci", "vnics", f)
         /\ OciVolumes(f) => Answered("oci", "volumes", f)
         /\ OpenStackTree(f) => Answered("openstack", "tree", f)
         /\ OpenStackNova(f) => Answered("openstack", "nova", f)
         /\ Ec2Token(f) => Answered("ec2", "token", f)
         /\ Ec2Versions(f) => Answered("ec2", "versions", f)
         /\ Ec2First(f) => Answered("ec2", "first", f)
         /\ Ec2Rest(f) => Answered("ec2", "rest", f)
<1>1. /\ f = "ok" => Get(f) = "body" /\ GetJSON(f) = "body"
      /\ f = "malformed" => Get(f) = "body" /\ GetJSON(f) = "error"
      /\ f \in {"status", "unreachable"} => Get(f) = "notAvailable" /\ GetJSON(f) = "notAvailable"
      /\ f = "cut" => Get(f) = "error" /\ GetJSON(f) = "error"
  BY DEF Get, GetJSON
<1>2. ASSUME NEW p \in Providers, NEW s \in StepsOf(p), Send(p, s, f)
      PROVE  /\ log'[p][s] = f
             /\ Received(p, s)' <=> f \in {"ok", "malformed"}
             /\ \A t \in Steps \ {s} : log'[p][t] = log[p][t] /\ (Received(p, t)' <=> Received(p, t))
             /\ pc[p] = s
             /\ s \in {"vnics", "volumes"} => Received(p, "document")
             /\ s = "rest" => Received(p, "first")
  <2>1. s \in Steps /\ TypeOK /\ PlaceOK(p) /\ pc[p] = s
    BY <1>2, StepsAreSteps DEF ProbeInv, Send
  <2>2. log'[p][s] = f /\ \A t \in Steps \ {s} : log'[p][t] = log[p][t]
    BY <1>2, <2>1, SendIsHeard
  <2> QED BY <2>1, <2>2 DEF Received, PlaceOK
<1> USE DEF Providers, Steps, StepsOf
<1>3. Gce(f) => Answered("gce", "document", f)
  BY <1>1, <1>2 DEF Gce, Answered, Returns, Fates
<1>4. Scaleway(f) => Answered("scaleway", "document", f)
  BY <1>1, <1>2 DEF Scaleway, Answered, Returns, Fates
<1>5. DigitalOcean(f) => Answered("digital_ocean", "document", f)
  BY <1>1, <1>2 DEF DigitalOcean, Needed, Answered, Returns, Fates
<1>6. Alibaba(f) => Answered("alibaba", "tree", f)
  BY <1>1, <1>2 DEF Alibaba, Answered, Returns, Fates
<1>7. AzureVersions(f) => Answered("azure", "versions", f)
  BY <1>2 DEF AzureVersions, Answered, GoesOn, Ahead
<1>8. Azure(f) => Answered("azure", "document", f)
  BY <1>1, <1>2 DEF Azure, Needed, Answered, Returns, Fates
<1>9. OciInstance(f) => Answered("oci", "document", f)
  BY <1>1, <1>2 DEF OciInstance, Needed, Answered, Returns, GoesOn, Ahead, Fates
<1>10. OciVnics(f) => Answered("oci", "vnics", f)
  BY <1>1, <1>2 DEF OciVnics, Answered, Returns, GoesOn, Ahead, Fates
<1>11. OciVolumes(f) => Answered("oci", "volumes", f)
  BY <1>1, <1>2 DEF OciVolumes, Answered, Returns, Fates
<1>12. OpenStackTree(f) => Answered("openstack", "tree", f)
  BY <1>2 DEF OpenStackTree, Answered, GoesOn, Ahead
<1>13. OpenStackNova(f) => Answered("openstack", "nova", f)
  BY <1>1, <1>2 DEF OpenStackNova, Get, Received, Answered, Returns, Fates
<1>14. Ec2Token(f) => Answered("ec2", "token", f)
  BY <1>2 DEF Ec2Token, Answered, GoesOn, Ahead
<1>15. Ec2Versions(f) => Answered("ec2", "versions", f)
  BY <1>2 DEF Ec2Versions, Answered, GoesOn, Ahead
<1>16. Ec2First(f) => Answered("ec2", "first", f)
  BY <1>1, <1>2 DEF Ec2First, Answered, Returns, GoesOn, Ahead, Fates
<1>17. Ec2Rest(f) => Answered("ec2", "rest", f)
  BY <1>2 DEF Ec2Rest, Answered, Returns
<1> QED
  BY <1>3, <1>4, <1>5, <1>6, <1>7, <1>8, <1>9, <1>10, <1>11, <1>12, <1>13, <1>14, <1>15, <1>16, <1>17

\* At the gate nothing has been asked yet.
AtGate(p) ==
    /\ p \in selection /\ pc[p] = "gate"
    /\ UNCHANGED <<host, selection, ctx, log>>
    /\ \/ Gate(p) /\ GoTo(p, FirstStep(p)) /\ p # "linode"
       \/ ~ Gate(p) /\ Return(p, "nil")
       \/ p = "linode" /\ Gate(p) /\ Return(p, "info")

LEMMA NextSplit ==
  ASSUME ProbeInv, Next
  PROVE  \/ Cancel
         \/ \E p \in Providers : AtGate(p) \/ \E s \in Steps, f \in Fates : Answered(p, s, f)
<1>1. selection \subseteq Providers
  BY SelectionsAssumption DEF ProbeInv, TypeOK
<1>2. ASSUME NEW p \in selection, GateClosed(p) \/ GateOpen(p) PROVE AtGate(p)
  BY <1>2 DEF GateClosed, GateOpen, AtGate
<1>3. Linode => AtGate("linode")
  BY DEF Linode, AtGate, Gate
<1>4. Linode => "linode" \in Providers
  BY DEF Providers
<1>5. ASSUME NEW f \in Fates,
             \/ Gce(f) \/ Scaleway(f) \/ DigitalOcean(f) \/ Alibaba(f)
             \/ AzureVersions(f) \/ Azure(f)
             \/ OciInstance(f) \/ OciVnics(f) \/ OciVolumes(f)
             \/ OpenStackTree(f) \/ OpenStackNova(f)
             \/ Ec2Token(f) \/ Ec2Versions(f) \/ Ec2First(f) \/ Ec2Rest(f)
      PROVE  \E p \in Providers, s \in Steps : Answered(p, s, f)
  <2>1. \E p \in Providers, s \in {"token", "versions", "first", "rest", "document", "vnics",
                                    "volumes", "tree", "nova"} : Answered(p, s, f)
    BY <1>5, ActionsAreAnswered DEF Providers
  <2> QED BY <2>1 DEF Steps
<1> QED BY <1>1, <1>2, <1>3, <1>4, <1>5 DEF Next, Collect

LEMMA AtGateKeepsProbeInv ==
  ASSUME ProbeInv, NEW p \in Providers, AtGate(p)
  PROVE  ProbeInv'
<1>1. /\ UNCHANGED <<host, selection, ctx, log>> /\ p \in selection
      /\ TypeOK /\ PlaceOK(p) /\ SaidOK(p)
  BY DEF ProbeInv, AtGate
<1>2. result[p] = "none" /\ \A s \in Steps : log[p][s] = "none"
  BY <1>1 DEF AtGate, PlaceOK, SaidOK, Ahead
<1>3. Gate(p)' <=> Gate(p)
  BY <1>1 DEF Gate, OpenOr, OnGCE, OnAlibaba, OnOpenStack, OnDigitalOcean, OnOCI, OnEC2, OnAzure,
              OnLinode, OnScaleway
<1>4. /\ TypeOK'
      /\ \A q \in Providers \ {p} : pc'[q] = pc[q] /\ result'[q] = result[q]
      /\ \/ /\ Gate(p) /\ pc'[p] = FirstStep(p) /\ result'[p] = "none" /\ p # "linode"
         \/ ~ Gate(p) /\ pc'[p] = "done" /\ result'[p] = "nil"
         \/ p = "linode" /\ Gate(p) /\ pc'[p] = "done" /\ result'[p] = "info"
  <2>1. FirstStep(p) \in Steps
    BY DEF FirstStep, Steps
  <2> QED BY <1>1, <1>2, <2>1 DEF AtGate, GoTo, Return, TypeOK
<1>5. /\ FirstStep(p) \notin {"gate", "done", "vnics", "volumes", "rest"}
      /\ p # "linode" => FirstStep(p) \in StepsOf(p)
      /\ Ahead(FirstStep(p)) \subseteq Steps
  BY DEF FirstStep, StepsOf, Ahead, Steps
<1>6. PlaceOK(p)'
  BY <1>1, <1>2, <1>3, <1>4, <1>5 DEF PlaceOK, Ahead, Heard
<1>7. SaidOK(p)'
  <2>1. p = "linode" /\ Gate(p) => (p \in Found)'
    BY <1>1 DEF Gate, OnLinode, Found
  <2> QED BY <1>3, <1>4, <1>5, <2>1 DEF SaidOK
<1>8. ASSUME NEW q \in Providers \ {p} PROVE PlaceOK(q)' /\ SaidOK(q)'
  BY <1>1, <1>4, OthersKeepProbeInv
<1> QED BY <1>4, <1>6, <1>7, <1>8 DEF ProbeInv

LEMMA NextProbeInv == ProbeInv /\ [Next]_vars => ProbeInv'
<1> SUFFICES ASSUME ProbeInv, [Next]_vars PROVE ProbeInv'
  OBVIOUS
<1>1. CASE Cancel \/ UNCHANGED vars
  <2>1. UNCHANGED <<host, selection, pc, log, result>> /\ TypeOK'
    BY <1>1 DEF Cancel, vars, ProbeInv, TypeOK
  <2>2. ASSUME NEW p \in Providers PROVE PlaceOK(p)' /\ SaidOK(p)'
    BY <2>1, OthersKeepProbeInv
  <2> QED BY <2>1, <2>2 DEF ProbeInv
<1>2. CASE Next
  BY <1>1, <1>2, NextSplit, AtGateKeepsProbeInv, AnsweredKeepsProbeInv
<1> QED BY <1>1, <1>2

LEMMA ProbeInvHolds == Spec => []ProbeInv
BY InitProbeInv, NextProbeInv, PTL DEF Spec

----------------------------------------------------------------------------
\* The collectors' state keeps its types, for any hosts and faults.
THEOREM ProbeTypeCorrect == Spec => []TypeOK
<1>1. ProbeInv => TypeOK
  BY DEF ProbeInv
<1> QED BY <1>1, ProbeInvHolds, PTL

----------------------------------------------------------------------------
\* Which cloud the results name.

\* Only the cloud the host is on, OpenStack's collector on EC2, EC2's on
\* OpenStack, and Linode's by its sign can be filled.
LEMMA FilledIsNear ==
  ASSUME ProbeInv, NEW p \in Filled
  PROVE  /\ Gate(p)
         /\ \/ p = "linode" /\ OnLinode
            \/ p = host.platform
            \/ p = "openstack" /\ host.platform = "ec2"
            \/ p = "ec2" /\ host.platform = "openstack"
<1>1. p \in Providers /\ result[p] = "info" /\ PlaceOK(p) /\ SaidOK(p)
  BY DEF Filled, ProbeInv
<1>2. Gate(p) /\ p \in Found
  BY <1>1 DEF PlaceOK, SaidOK
<1>3. p = "linode" => OnLinode
  BY <1>2 DEF Gate
<1>4. ASSUME p # "linode"
      PROVE  \/ p = host.platform
             \/ p = "openstack" /\ host.platform = "ec2"
             \/ p = "ec2" /\ host.platform = "openstack"
  <2>1. PICK s \in Steps \ {"token", "versions"} : Received(p, s)
    BY <1>2, <1>4 DEF Found
  <2>2. Served(p, s)
    BY <1>1, <2>1 DEF Received, Heard, PlaceOK
  <2> QED BY <2>1, <2>2 DEF Served
<1> QED BY <1>2, <1>3, <1>4

\* A collector whose sign is there and whose requests were all answered has
\* filled its field.
LEMMA AnsweredIsFilled ==
  ASSUME ProbeInv, NEW p \in Providers, Gate(p), result[p] # "none",
         \A s \in Steps : log[p][s] \in {"ok", "none"}
  PROVE  p \in Filled
BY DEF ProbeInv, TypeOK, SaidOK, Filled

\* A priority names its first provider if that is in the set, its only one if
\* the set has one, and nobody if the set is empty.
LEMMA FirstOfFirst ==
  ASSUME NEW order, NEW S, NEW k \in DOMAIN order, DOMAIN order \subseteq Nat,
         order[k] \in S, \A j \in DOMAIN order : j < k => order[j] \notin S
  PROVE  FirstOf(order, S) = order[k]
<1> DEFINE I == {i \in DOMAIN order : order[i] \in S}
<1>1. Min(I) = k
  <2>1. k \in I /\ \A i \in I : k =< i
    OBVIOUS
  <2>2. \A x \in I : (\A i \in I : x =< i) => x = k
    BY <2>1
  <2> HIDE DEF I
  <2> QED BY <2>1, <2>2 DEF Min
<1>2. S \cap Range(order) # {}
  BY DEF Range
<1> QED BY <1>1, <1>2 DEF FirstOf

LEMMA FirstOfNone ==
  ASSUME NEW order, NEW S, S \cap Range(order) = {}
  PROVE  FirstOf(order, S) = "none"
BY DEF FirstOf

FactsOrder == <<"ec2", "gce", "azure", "digital_ocean", "oci", "alibaba", "linode", "openstack",
                "scaleway">>
OcsfOrder == <<"ec2", "gce", "azure", "oci", "alibaba", "digital_ocean", "openstack", "scaleway">>

LEMMA OrdersHold ==
  /\ DOMAIN FactsOrder = 1..9 /\ Range(FactsOrder) = Providers
  /\ DOMAIN OcsfOrder = 1..8 /\ Range(OcsfOrder) = Providers \ {"linode"}
  /\ FactsOrder[1] = "ec2" /\ OcsfOrder[1] = "ec2"
  /\ \A i, j \in 1..9 : FactsOrder[i] = FactsOrder[j] => i = j
  /\ \A i, j \in 1..8 : OcsfOrder[i] = OcsfOrder[j] => i = j
BY DEF FactsOrder, OcsfOrder, Range, Providers

LEMMA FirstOfEC2 ==
  ASSUME NEW S, "ec2" \in S
  PROVE  FirstOf(FactsOrder, S) = "ec2" /\ FirstOf(OcsfOrder, S) = "ec2"
BY OrdersHold, FirstOfFirst

LEMMA FirstOfOnly ==
  ASSUME NEW p \in Providers
  PROVE  /\ FirstOf(FactsOrder, {p}) = p
         /\ p # "linode" => FirstOf(OcsfOrder, {p}) = p
<1>1. FirstOf(FactsOrder, {p}) = p
  <2>1. PICK k \in 1..9 : FactsOrder[k] = p
    BY OrdersHold DEF Range
  <2> QED BY <2>1, OrdersHold, FirstOfFirst
<1>2. ASSUME p # "linode" PROVE FirstOf(OcsfOrder, {p}) = p
  <2>1. PICK k \in 1..8 : OcsfOrder[k] = p
    BY <1>2, OrdersHold DEF Range
  <2> QED BY <2>1, OrdersHold, FirstOfFirst
<1> QED BY <1>1, <1>2

\* On a cloud whose own signs are there and whose service answers, Facts.Cloud
\* names that cloud, in whatever order the collectors ran.
THEOREM NamesTheCloudHolds == Spec => []NamesTheCloud
<1>1. ASSUME ProbeInv, Done, host.platform \in selection, OwnSigns(host.platform),
             \A s \in Steps : log[host.platform][s] \in {"ok", "none"}
      PROVE  Cloud = host.platform
  <2> DEFINE p == host.platform
  <2>1. p \in Providers /\ result[p] # "none" /\ Gate(p)
    BY <1>1, SelectionsAssumption DEF ProbeInv, TypeOK, Done, OwnSigns
  <2>2. p \in Filled
    BY <1>1, <2>1, AnsweredIsFilled
  <2>3. Cloud = FirstOf(FactsOrder, Filled)
    BY DEF Cloud, FactsOrder
  <2>4. CASE p = "ec2"
    BY <2>2, <2>3, <2>4, FirstOfEC2
  <2>5. CASE p # "ec2"
    <3>1. ASSUME NEW q \in Filled PROVE q = p
      <4>1. Gate(q) /\ ((q = "linode" /\ OnLinode) \/ q = p \/ (q = "ec2" /\ p = "openstack"))
        BY <1>1, <2>5, <3>1, FilledIsNear
      <4>2. q = "linode" /\ OnLinode => q = p
        BY <1>1, <2>5 DEF OnLinode, OwnSigns
      <4>3. ~ (Gate("ec2") /\ p = "openstack")
        BY <1>1 DEF OwnSigns, Gate, OnEC2
      <4> QED BY <4>1, <4>2, <4>3
    <3>2. Filled = {p}
      BY <2>2, <3>1
    <3> QED BY <2>1, <2>3, <3>2, FirstOfOnly
  <2> QED BY <2>4, <2>5
<1>2. ProbeInv => NamesTheCloud
  BY <1>1 DEF NamesTheCloud
<1> QED BY <1>2, ProbeInvHolds, PTL

\* Whatever was filled, Facts.Cloud and the OCSF event name the same cloud,
\* though they look in different orders; Linode is the exception.
THEOREM ViewsAgreeHolds == Spec => []ViewsAgree
<1>1. ASSUME ProbeInv, result["linode"] # "info" PROVE Cloud = OcsfCloud
  <2>1. Cloud = FirstOf(FactsOrder, Filled) /\ OcsfCloud = FirstOf(OcsfOrder, Filled)
    BY DEF Cloud, OcsfCloud, FactsOrder, OcsfOrder
  <2>2. CASE "ec2" \in Filled
    BY <2>1, <2>2, FirstOfEC2
  <2>3. CASE Filled = {}
    BY <2>1, <2>3, FirstOfNone
  <2>4. CASE "ec2" \notin Filled /\ Filled # {}
    <3>1. PICK p \in Filled : TRUE
      BY <2>4
    <3>2. \A q \in Filled : q # "linode" /\ q # "ec2"
      BY <1>1, <2>4 DEF Filled
    <3>3. \A q \in Filled : q = p
      BY <1>1, <3>1, <3>2, FilledIsNear
    <3>4. Filled = {p} /\ p \in Providers /\ p # "linode"
      BY <3>1, <3>2, <3>3 DEF Filled
    <3> QED BY <2>1, <3>4, FirstOfOnly
  <2> QED BY <2>2, <2>3, <2>4
<1>2. ProbeInv => ViewsAgree
  BY <1>1 DEF ViewsAgree
<1> QED BY <1>2, ProbeInvHolds, PTL

----------------------------------------------------------------------------
\* The collectors keep the contract of probes.

LEMMA InitProbeContract == Init => Contract!Init
<1> SUFFICES ASSUME Init PROVE Contract!Init
  OBVIOUS
<1>1. selection \subseteq Providers /\ Reached = {} /\ Found \subseteq Providers
  BY SelectionsAssumption DEF Init, Reached, Received, Found, Providers
<1> QED BY <1>1 DEF Init, Contract!Init

\* The answer to a request is something heard, which may tell where the host
\* is, and nothing heard before is forgotten.
LEMMA AnsweredIsHeard ==
  ASSUME ProbeInv, NEW p \in Providers, NEW s \in Steps, NEW f \in Fates, Answered(p, s, f)
  PROVE  /\ p \in selection /\ result[p] = "none"
         /\ Contract!Hear(p) \/ UNCHANGED <<Reached, Found>>
         /\ \A t \in Steps : Heard(p, t)' => p \in Reached'
<1>1. TypeOK /\ PlaceOK(p) /\ SaidOK(p) /\ pc[p] = s /\ Send(p, s, f)
      /\ s \in StepsOf(p)
  BY DEF ProbeInv, Answered, Send
<1>2. s \in Ahead(s) /\ s \notin {"gate", "done"}
  BY <1>1, StepsAreSteps
<1>3. p \in selection /\ result[p] = "none" /\ log[p][s] = "none"
  BY <1>1, <1>2 DEF PlaceOK, SaidOK
<1>4. /\ log'[p][s] = f
      /\ \A t \in Steps \ {s} : log'[p][t] = log[p][t]
      /\ \A q \in Providers \ {p} : log'[q] = log[q]
      /\ UNCHANGED host
  BY <1>1, SendIsHeard
<1>5. \A t \in Steps : Heard(p, t)' => p \in Reached'
  BY DEF Heard, Reached, Received
<1>6. ASSUME NEW q \in Providers \ {p}
      PROVE  (q \in Reached' <=> q \in Reached) /\ (q \in Found' <=> q \in Found)
  BY <1>4 DEF Reached, Found, Received
<1>7. (p \in Reached)' <=> p \in Reached \/ f \in {"ok", "malformed", "cut"}
  BY <1>3, <1>4 DEF Reached, Received
<1>8. (p \in Found)' <=> p \in Found \/ (f \in {"ok", "malformed"} /\ s \notin {"token", "versions"})
  BY <1>3, <1>4 DEF Found, Received
<1>9. Reached \subseteq Providers /\ Found \subseteq Providers
      /\ Reached' \subseteq Providers /\ Found' \subseteq Providers
  BY DEF Reached, Found, Providers
<1>10. Contract!Hear(p) \/ UNCHANGED <<Reached, Found>>
  <2>1. CASE f \in {"ok", "malformed", "cut"}
    <3>1. Reached' = Reached \cup {p} /\ Found' \in {Found, Found \cup {p}}
      BY <1>6, <1>7, <1>8, <1>9, <2>1
    <3> QED BY <1>3, <3>1 DEF Contract!Hear
  <2>2. CASE f \notin {"ok", "malformed", "cut"}
    <3>1. Reached' = Reached /\ Found' = Found
      BY <1>6, <1>7, <1>8, <1>9, <2>2
    <3> QED BY <3>1
  <2> QED BY <2>1, <2>2
<1> QED BY <1>3, <1>5, <1>10

LEMMA StepKeepsContract == ProbeInv /\ [Next]_vars => [Contract!Next]_(Contract!vars)
<1> SUFFICES ASSUME ProbeInv, [Next]_vars PROVE Contract!Next \/ UNCHANGED Contract!vars
  OBVIOUS
<1>1. CASE Cancel \/ UNCHANGED vars
  BY <1>1 DEF Cancel, vars, Contract!vars, Reached, Found, Received
<1>2. ASSUME NEW p \in Providers, AtGate(p) PROVE Contract!Next \/ UNCHANGED Contract!vars
  <2>1. UNCHANGED <<selection, Reached, Found>> /\ p \in selection
    BY <1>2 DEF AtGate, Reached, Found, Received
  <2>2. result[p] = "none" /\ (p = "linode" /\ Gate(p) => p \in Found)
    BY <1>2 DEF AtGate, ProbeInv, SaidOK, Gate, OnLinode, Found
  <2>3. \/ UNCHANGED result
        \/ result' = [result EXCEPT ![p] = "nil"]
        \/ result' = [result EXCEPT ![p] = "info"] /\ p \in Found'
    BY <1>2, <2>1, <2>2 DEF AtGate, GoTo, Return
  <2>4. Contract!Look(p)
    BY <2>1, <2>2, <2>3 DEF Contract!Look, Contract!MaySay
  <2> QED BY <2>4 DEF Contract!Next
<1>3. ASSUME NEW p \in Providers, NEW s \in Steps, NEW f \in Fates, Answered(p, s, f)
      PROVE  Contract!Next
  <2>1. /\ p \in selection /\ result[p] = "none"
        /\ Contract!Hear(p) \/ UNCHANGED <<Reached, Found>>
        /\ \A t \in Steps : Heard(p, t)' => p \in Reached'
    BY <1>3, AnsweredIsHeard
  <2>2. ProbeInv' /\ UNCHANGED selection
    BY <1>3, AnsweredKeepsProbeInv DEF Answered, Send
  <2>3. \/ UNCHANGED result
        \/ \E r \in {"nil", "info", "err"} : Contract!MaySay(p, r) /\ result' = [result EXCEPT ![p] = r]
    <3>1. CASE \E n \in StepsOf(p) : GoesOn(p, s, f, n)
      BY <3>1 DEF GoesOn, GoTo
    <3>2. CASE \E r \in {"nil", "info", "err"} : Returns(p, s, f, r)
      <4>1. PICK r \in {"nil", "info", "err"} : Returns(p, s, f, r)
        BY <3>2
      <4>2. result' = [result EXCEPT ![p] = r] /\ result'[p] = r
        BY <4>1 DEF Returns, Return, ProbeInv, TypeOK
      <4>3. (r = "info" => p \in Found') /\ (r = "err" => p \in Reached')
        BY <2>1, <2>2, <4>2 DEF ProbeInv, SaidOK
      <4> QED BY <4>2, <4>3 DEF Contract!MaySay
    <3> QED BY <1>3, <3>1, <3>2 DEF Answered
  <2>4. Contract!Look(p)
    BY <2>1, <2>2, <2>3 DEF Contract!Look
  <2> QED BY <2>4 DEF Contract!Next
<1>4. CASE Next
  BY <1>1, <1>2, <1>3, <1>4, NextSplit
<1> QED BY <1>1, <1>4

\* The collectors keep the contract of probes whatever the services do: a
\* field is filled only from something found, an error is reported only of a
\* service that answered, and nothing said is taken back.
THEOREM KeepsProbeContractHolds == Spec => KeepsProbeContract
BY InitProbeInv, NextProbeInv, InitProbeContract, StepKeepsContract, PTL DEF Spec, KeepsProbeContract
=============================================================================
