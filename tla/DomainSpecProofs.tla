-------------------------- MODULE DomainSpecProofs --------------------------
(***************************************************************************)
(* That the parsers do what USAGE says on every environment, and that the  *)
(* document made of what they found tells its reader all there is to tell, *)
(* for all domains, ports and hosts.                                       *)
(***************************************************************************)
EXTENDS DomainSpec, SequenceTheorems, WellFoundedInduction, TLAPS

-----------------------------------------------------------------------------
(* Induction, and flattening *)

(***************************************************************************)
(* Every non-empty set of natural numbers has a least element.             *)
(***************************************************************************)
LEMMA LeastNumber ==
    ASSUME NEW T \in SUBSET Nat, T # {}
    PROVE  \E n \in T : \A m \in T : n <= m
  <1> DEFINE R == OpToRel(<, Nat)
  <1>1. IsWellFoundedOn(R, Nat)
    BY NatLessThanWellFounded
  <1>2. \A m, n \in Nat : m < n => <<m, n>> \in R
    BY DEF OpToRel
  <1> HIDE DEF R
  <1>3. PICK n \in T : \A m \in T : <<m, n>> \notin R
    BY <1>1, WFMin
  <1>4. ASSUME NEW m \in T
        PROVE  n <= m
    <2>1. m \in Nat /\ n \in Nat
      OBVIOUS
    <2>2. ~(m < n)
      BY <1>2, <1>3, <2>1
    <2>3. QED
      BY <2>1, <2>2
  <1>5. QED
    BY <1>4

(***************************************************************************)
(* Induction, stated with a set for the property: the prover cannot        *)
(* instantiate a theorem that has an operator for it.                      *)
(***************************************************************************)
LEMMA SetInduction ==
    ASSUME NEW S, 0 \in S, \A n \in Nat : n \in S => n + 1 \in S
    PROVE  Nat \subseteq S
  <1> DEFINE T == Nat \ S
  <1> SUFFICES ASSUME T # {} PROVE FALSE
    OBVIOUS
  <1>1. PICK n \in T : \A m \in T : n <= m
    BY LeastNumber
  <1>2. n # 0
    OBVIOUS
  <1>3. n - 1 \in Nat /\ n = (n - 1) + 1 /\ n - 1 \notin T
    BY <1>1, <1>2
  <1>4. QED
    BY <1>3

(***************************************************************************)
(* FlattenSeq adds one sequence after the other: the recursive function it *)
(* is defined with exists, and has as its values the partial results.      *)
(***************************************************************************)
LEMMA FlattenUnfolds ==
    ASSUME NEW S, NEW seqs \in Seq(Seq(S))
    PROVE  \E f \in [0..Len(seqs) -> Seq(S)] :
            /\ f[0] = <<>>
            /\ \A i \in 1..Len(seqs) : f[i] = f[i - 1] \o seqs[i]
            /\ FlattenSeq(seqs) = f[Len(seqs)]
  <1> DEFINE n == Len(seqs)
             Step(g, k) == [i \in 1..k |->
                                IF i = 1 THEN seqs[i] ELSE g[i - 1] \o seqs[i]]
             Solved == {k \in Nat : \E g : g = Step(g, k)}
             flat == CHOOSE g : g = Step(g, n)
             f == [i \in 0..n |-> IF i = 0 THEN <<>> ELSE flat[i]]
             Typed == {k \in Nat : k <= n => f[k] \in Seq(S)}
  <1>1. Nat \subseteq Solved
    <2>1. 0 \in Solved
      <3>1. Step(<<>>, 0) = Step(Step(<<>>, 0), 0)
        OBVIOUS
      <3>2. QED
        BY <3>1
    <2>2. ASSUME NEW k \in Nat, k \in Solved
          PROVE  k + 1 \in Solved
      <3>1. PICK g : g = Step(g, k)
        BY <2>2
      <3> DEFINE h == Step(g, k + 1)
      <3>2. ASSUME NEW i \in 1..k
            PROVE  h[i] = g[i]
        <4>1. g[i] = IF i = 1 THEN seqs[i] ELSE g[i - 1] \o seqs[i]
          BY <3>1
        <4>2. i \in 1..(k + 1)
          OBVIOUS
        <4>3. QED
          BY <4>1, <4>2
      <3> HIDE DEF h
      <3>3. h = Step(h, k + 1)
        <4>1. ASSUME NEW i \in 1..(k + 1)
              PROVE  (IF i = 1 THEN seqs[i] ELSE g[i - 1] \o seqs[i])
                        = (IF i = 1 THEN seqs[i] ELSE h[i - 1] \o seqs[i])
          <5>1. i = 1 \/ i - 1 \in 1..k
            OBVIOUS
          <5>2. QED
            BY <3>2, <5>1
        <4>2. QED
          BY <4>1 DEF h
      <3> HIDE DEF Step
      <3>4. \E e : e = Step(e, k + 1)
        BY <3>3
      <3>5. QED
        BY <3>4
    <2> HIDE DEF Solved
    <2>3. QED
      BY <2>1, <2>2, SetInduction
  <1>2. n \in Nat
    OBVIOUS
  <1>3. flat = Step(flat, n)
    BY <1>1, <1>2
  <1>4. ASSUME NEW i \in 1..n
        PROVE  flat[i] = IF i = 1 THEN seqs[i] ELSE flat[i - 1] \o seqs[i]
    <2> HIDE DEF flat
    <2>1. QED
      BY <1>3
  <1>5. FlattenSeq(seqs) = f[n]
    <2>1. CASE n = 0
      BY <2>1 DEF FlattenSeq
    <2>2. CASE n # 0
      <3>1. FlattenSeq(seqs) = flat[n]
        BY <2>2 DEF FlattenSeq
      <3>2. QED
        BY <2>2, <3>1
    <2>3. QED
      BY <2>1, <2>2
  <1> HIDE DEF flat
  <1>6. f[0] = <<>> /\ \A i \in 1..n : f[i] = flat[i]
    OBVIOUS
  <1> HIDE DEF f
  <1>7. ASSUME NEW i \in 1..n
        PROVE  f[i] = f[i - 1] \o seqs[i]
    <2>1. seqs[i] \in Seq(S)
      OBVIOUS
    <2>2. CASE i = 1
      <3>1. f[i - 1] = <<>> /\ f[i] = seqs[i]
        BY <1>4, <1>6, <2>2
      <3>2. <<>> \o seqs[i] = seqs[i]
        BY <2>1
      <3>3. QED
        BY <3>1, <3>2
    <2>3. CASE i # 1
      <3>1. i - 1 \in 1..n
        BY <2>3
      <3>2. f[i - 1] = flat[i - 1]
        BY <1>6, <3>1
      <3>3. QED
        BY <1>4, <1>6, <2>3, <3>2
    <2>4. QED
      BY <2>2, <2>3
  <1>8. Nat \subseteq Typed
    <2>1. 0 \in Typed
      <3>1. <<>> \in Seq(S)
        OBVIOUS
      <3>2. f[0] \in Seq(S)
        BY <1>6, <3>1
      <3>3. QED
        BY <3>2
    <2>2. ASSUME NEW k \in Nat, k \in Typed
          PROVE  k + 1 \in Typed
      <3>1. CASE k + 1 <= n
        <4>1. k + 1 \in 1..n /\ (k + 1) - 1 = k
          BY <3>1
        <4>2. f[k + 1] = f[k] \o seqs[k + 1]
          BY <1>7, <4>1
        <4>3. f[k] \in Seq(S)
          BY <2>2, <3>1
        <4>4. seqs[k + 1] \in Seq(S)
          BY <4>1
        <4>5. f[k + 1] \in Seq(S)
          BY <4>2, <4>3, <4>4
        <4>6. QED
          BY <4>5
      <3>2. QED
        BY <3>1
    <2> HIDE DEF Typed
    <2>3. QED
      BY <2>1, <2>2, SetInduction
  <1>9. f \in [0..n -> Seq(S)]
    <2>1. ASSUME NEW k \in 0..n
          PROVE  f[k] \in Seq(S)
      <3>1. k \in Nat /\ k <= n
        OBVIOUS
      <3>2. QED
        BY <1>8, <3>1
    <2>2. f = [k \in 0..n |-> f[k]]
      BY DEF f
    <2>3. QED
      BY <2>1, <2>2
  <1>10. QED
    BY <1>5, <1>6, <1>7, <1>9

-----------------------------------------------------------------------------
(* The document *)

(* parse_all leaves no specification without. *)
HasPort(s) == s.http_port # NoPort \/ s.https_port # NoPort

(***************************************************************************)
(* domain_config has a field for exactly the ports a specification has.    *)
(***************************************************************************)
LEMMA FieldsOfConfig ==
    ASSUME NEW host, NEW s, NEW p \in Protocols
    PROVE  LET config == domain_config(host, s)
           IN  /\ p \in DOMAIN config <=> Port(s, p) # NoPort
               /\ p \in DOMAIN config =>
                    config[p] = [host |-> host, port |-> Port(s, p)]
  <1> DEFINE F == {"id", "domain"} \cup {q \in Protocols : Port(s, q) # NoPort}
             V(field) == CASE field = "id" -> spec_id(s)
                           [] field = "domain" -> s.domain_name
                           [] OTHER -> backend_setup(host, Port(s, field))
             config == [field \in F |-> V(field)]
  <1>1. p \in F <=> Port(s, p) # NoPort
    BY DEF Protocols
  <1>2. V(p) = backend_setup(host, Port(s, p))
    BY DEF Protocols
  <1>3. domain_config(host, s) = config
    BY DEF domain_config
  <1>4. DOMAIN config = F /\ (p \in F => config[p] = V(p))
    OBVIOUS
  <1> HIDE DEF F, V, config
  <1>5. QED
    BY <1>1, <1>2, <1>3, <1>4 DEF backend_setup

(***************************************************************************)
(* A reader of an object of the document learns the domain and both ports, *)
(* and the host of the container as soon as there is a port.               *)
(***************************************************************************)
THEOREM ObjectTellsAll ==
    ASSUME NEW host, NEW Labels, NEW Numbers,
           NEW s \in [domain_name : Labels, http_port : Numbers, https_port : Numbers]
    PROVE  LET config == domain_config(host, s)
           IN  /\ SpecIn(config) = s
               /\ HasPort(s) => HostsIn(config) = {host}
  <1> DEFINE config == domain_config(host, s)
  <1>1. config["domain"] = s.domain_name
    BY DEF domain_config
  <1>2. ASSUME NEW p \in Protocols
        PROVE  /\ PortIn(config, p) = Port(s, p)
               /\ p \in DOMAIN config <=> Port(s, p) # NoPort
               /\ p \in DOMAIN config => config[p].host = host
    <2>1. /\ p \in DOMAIN config <=> Port(s, p) # NoPort
          /\ p \in DOMAIN config =>
                config[p] = [host |-> host, port |-> Port(s, p)]
      BY FieldsOfConfig
    <2> HIDE DEF config
    <2>2. PortIn(config, p) = Port(s, p)
      BY <2>1 DEF PortIn
    <2>3. QED
      BY <2>1, <2>2
  <1> HIDE DEF config
  <1>3. /\ PortIn(config, "http") = s.http_port
        /\ PortIn(config, "https") = s.https_port
        /\ "http" \in DOMAIN config <=> s.http_port # NoPort
        /\ "https" \in DOMAIN config <=> s.https_port # NoPort
    BY <1>2 DEF Port, Protocols
  <1>4. SpecIn(config) = s
    BY <1>1, <1>3 DEF SpecIn
  <1>5. ASSUME HasPort(s)
        PROVE  HostsIn(config) = {host}
    <2>1. HostsIn(config) \subseteq {host}
      BY <1>2 DEF HostsIn
    <2>2. PICK p \in Protocols : p \in DOMAIN config
      BY <1>3, <1>5 DEF Protocols, HasPort
    <2>3. host \in HostsIn(config)
      BY <1>2, <2>2 DEF HostsIn
    <2>4. QED
      BY <2>1, <2>3
  <1>6. QED
    BY <1>4, <1>5 DEF config

(***************************************************************************)
(* Two lists of complete specifications that are published as the same     *)
(* document are the same list, and are about the same host unless empty:   *)
(* nothing that parse_all produces is lost on its way into redis.          *)
(***************************************************************************)
THEOREM DocumentsAreUnambiguous ==
    ASSUME NEW host, NEW other, NEW Labels, NEW Numbers,
           NEW list \in Seq([domain_name : Labels, http_port : Numbers, https_port : Numbers]),
           NEW list2 \in Seq([domain_name : Labels, http_port : Numbers, https_port : Numbers]),
           domain_configs(host, list) = domain_configs(other, list2)
    PROVE  /\ list = list2
           /\ \A i \in DOMAIN list : HasPort(list[i]) => host = other
  <1>1. DOMAIN list = DOMAIN list2
    BY DEF domain_configs
  <1>2. ASSUME NEW i \in DOMAIN list
        PROVE  domain_config(host, list[i]) = domain_config(other, list2[i])
    <2>1. domain_configs(host, list)[i] = domain_config(host, list[i])
      BY DEF domain_configs
    <2>2. domain_configs(other, list2)[i] = domain_config(other, list2[i])
      BY <1>1 DEF domain_configs
    <2>3. QED
      BY <2>1, <2>2
  <1>3. ASSUME NEW i \in DOMAIN list
        PROVE  /\ list[i] = list2[i]
               /\ HasPort(list[i]) => host = other
    <2>1. /\ list[i] \in [domain_name : Labels, http_port : Numbers, https_port : Numbers]
          /\ list2[i] \in [domain_name : Labels, http_port : Numbers, https_port : Numbers]
      <3> DEFINE S == [domain_name : Labels, http_port : Numbers, https_port : Numbers]
      <3>1. list \in Seq(S) /\ list2 \in Seq(S) /\ i \in DOMAIN list2
        BY <1>1
      <3> HIDE DEF S
      <3>2. list[i] \in S /\ list2[i] \in S
        BY <3>1
      <3>3. QED
        BY <3>2 DEF S
    <2>2. SpecIn(domain_config(host, list[i])) = list[i]
      BY <2>1, ObjectTellsAll
    <2>3. SpecIn(domain_config(other, list2[i])) = list2[i]
      BY <2>1, ObjectTellsAll
    <2>4. list[i] = list2[i]
      BY <1>2, <2>2, <2>3
    <2>5. ASSUME HasPort(list[i])
          PROVE  host = other
      <3>1. HostsIn(domain_config(host, list[i])) = {host}
        BY <2>1, <2>5, ObjectTellsAll
      <3>2. HostsIn(domain_config(other, list2[i])) = {other}
        BY <2>1, <2>4, <2>5, ObjectTellsAll
      <3>3. QED
        BY <1>2, <3>1, <3>2
    <2>6. QED
      BY <2>4, <2>5
  <1>4. list = list2
    BY <1>1, <1>3
  <1>5. QED
    BY <1>3, <1>4

-----------------------------------------------------------------------------
(* Type correctness *)

(* What a protocol without a value means. *)
LEMMA DefaultPorts == 80 \in Ports /\ 443 \in Ports
  BY PortsAssumption

(* The name of a domain, however it was written. *)
LEMMA ChopDotType ==
    ASSUME NEW c \in Capture
    PROVE  ChopDot(c.domain_name) \in DomainNames
  BY NamesAssumption DEF ChopDot, Capture

(***************************************************************************)
(* Every step of the parsers preserves the types: the sequences get        *)
(* shorter, and the specification that is pushed is one, with ports.       *)
(***************************************************************************)
LEMMA TypeStep == TypeOK /\ [Next]_vars => TypeOK'
  <1> SUFFICES ASSUME TypeOK, [Next]_vars
               PROVE  TypeOK'
    OBVIOUS
  <1> USE DEF TypeOK
  <1>1. CASE TakeLine
    <2>1. Head(lines) \in Line /\ Tail(lines) \in Seq(Line)
      BY <1>1, HeadTailProperties DEF TakeLine
    <2>2. lines' \in Seq(Line) /\ captures' \in Seq(Capture) /\ envvar_present' \in BOOLEAN
      BY <1>1, <2>1 DEF TakeLine, Line
    <2>3. QED
      BY <1>1, <2>2 DEF TakeLine
  <1>2. CASE TakeCapture
    <2>1. Head(captures) \in Capture /\ Tail(captures) \in Seq(Capture)
      BY <1>2, HeadTailProperties DEF TakeCapture
    <2>2. spec' \in ParsedSpec
      <3>1. ChopDot(Head(captures).domain_name) \in DomainNames
        BY <2>1, ChopDotType
      <3>2. QED
        BY <1>2, <3>1 DEF TakeCapture, NoSpec, ParsedSpec
    <2>3. params' \in Seq(Param)
      BY <1>2, <2>1 DEF TakeCapture, Capture
    <2>4. QED
      BY <1>2, <2>1, <2>2, <2>3 DEF TakeCapture
  <1>3. ASSUME NEW key, AtParam(key)
        PROVE  /\ Head(params) \in Param /\ Tail(params) \in Seq(Param)
               /\ spec \in ParsedSpec
    <2>1. params # <<>> /\ spec # NoSpec
      BY <1>3 DEF AtParam
    <2>2. params \in Seq(Param)
      OBVIOUS
    <2>3. Head(params) \in Param /\ Tail(params) \in Seq(Param)
      BY <2>1, <2>2, HeadTailProperties
    <2>4. spec \in ParsedSpec
      BY <2>1
    <2>5. QED
      BY <2>3, <2>4
  <1>4. ASSUME NEW default \in Ports, Head(params) \in Param, Head(params).value # BadPort
        PROVE  PortOr(default) \in Ports
    BY <1>4 DEF PortOr, Param
  <1>5. 80 \in Ports /\ 443 \in Ports
    BY DefaultPorts
  <1>6. CASE HttpParam
    <2>1. Head(params) \in Param /\ Tail(params) \in Seq(Param) /\ spec \in ParsedSpec
      BY <1>3, <1>6 DEF HttpParam
    <2>2. PortOr(80) \in Ports
      BY <1>4, <1>5, <1>6, <2>1 DEF HttpParam
    <2>3. spec' \in ParsedSpec
      BY <1>6, <2>1, <2>2 DEF HttpParam, ParsedSpec
    <2>4. QED
      BY <1>6, <2>1, <2>3 DEF HttpParam, NextParam
  <1>7. CASE HttpsParam
    <2>1. Head(params) \in Param /\ Tail(params) \in Seq(Param) /\ spec \in ParsedSpec
      BY <1>3, <1>7 DEF HttpsParam
    <2>2. PortOr(443) \in Ports
      BY <1>4, <1>5, <1>7, <2>1 DEF HttpsParam
    <2>3. spec' \in ParsedSpec
      BY <1>7, <2>1, <2>2 DEF HttpsParam, ParsedSpec
    <2>4. QED
      BY <1>7, <2>1, <2>3 DEF HttpsParam, NextParam
  <1>8. CASE UnknownParam
    <2>1. Tail(params) \in Seq(Param)
      BY <1>3, <1>8 DEF UnknownParam
    <2>2. QED
      BY <1>8, <2>1 DEF UnknownParam, NextParam
  <1>9. CASE BadParam
    BY <1>9 DEF BadParam
  <1>10. CASE PushSpec
    <2>1. spec \in ParsedSpec
      BY <1>10 DEF PushSpec
    <2>2. WithDefaults(spec) \in ParsedSpec
      BY <1>5, <2>1 DEF WithDefaults, ParsedSpec
    <2>3. specs' \in Seq(ParsedSpec)
      BY <1>10, <2>2, AppendProperties DEF PushSpec
    <2>4. QED
      BY <1>10, <2>3 DEF PushSpec
  <1>11. CASE Finish
    BY <1>11 DEF Finish
  <1>12. CASE UNCHANGED vars
    BY <1>12 DEF vars
  <1>13. QED
    BY <1>1, <1>2, <1>6, <1>7, <1>8, <1>9, <1>10, <1>11, <1>12
       DEF Next, Parsed

(***************************************************************************)
(* TypeOK of the parsers: in particular every specification pushed has the *)
(* name of a domain and ports that fit into 16 bits, or none.              *)
(***************************************************************************)
THEOREM TypeCorrect == Spec => []TypeOK
  <1>1. Init => TypeOK
    <2> SUFFICES ASSUME Init PROVE TypeOK
      OBVIOUS
    <2>1. env \in Seq(Line) /\ lines \in Seq(Line)
      BY EnvsAssumption DEF Init
    <2>2. /\ captures \in Seq(Capture) /\ params \in Seq(Param)
          /\ specs \in Seq(ParsedSpec)
      BY EmptySeq DEF Init
    <2>3. QED
      BY <2>1, <2>2 DEF Init, TypeOK
  <1>2. QED
    BY <1>1, TypeStep, PTL DEF Spec

-----------------------------------------------------------------------------
(* What has been read *)

(***************************************************************************)
(* Gathered(e)[k]: the domains in the first k lines of the environment e.  *)
(***************************************************************************)
Gathers(e, f) ==
    /\ f \in [0..Len(e) -> Seq(Capture)]
    /\ f[0] = <<>>
    /\ \A k \in 1..Len(e) : f[k] = f[k - 1] \o CapturesOf(e[k])
    /\ FlattenSeq([k \in DOMAIN e |-> CapturesOf(e[k])]) = f[Len(e)]

Gathered(e) == CHOOSE f : Gathers(e, f)

(***************************************************************************)
(* There are such partial results for every environment.                   *)
(***************************************************************************)
LEMMA GatheredExists ==
    ASSUME NEW e \in Seq(Line)
    PROVE  Gathers(e, Gathered(e))
  <1> DEFINE seqs == [k \in DOMAIN e |-> CapturesOf(e[k])]
  <1>1. ASSUME NEW line \in Line
        PROVE  CapturesOf(line) \in Seq(Capture)
    BY EmptySeq DEF CapturesOf, Line
  <1>2. DOMAIN e = 1..Len(e) /\ Len(e) \in Nat
    BY LenProperties
  <1>3. ASSUME NEW k \in 1..Len(e)
        PROVE  CapturesOf(e[k]) \in Seq(Capture)
    BY <1>1, ElementOfSeq
  <1>4. seqs \in [1..Len(e) -> Seq(Capture)]
    BY <1>2, <1>3
  <1>5. seqs \in Seq(Seq(Capture)) /\ Len(seqs) = Len(e)
    BY <1>2, <1>4
  <1>6. \A k \in 1..Len(e) : seqs[k] = CapturesOf(e[k])
    BY <1>2
  <1> HIDE DEF seqs
  <1>7. PICK f \in [0..Len(seqs) -> Seq(Capture)] :
            /\ f[0] = <<>>
            /\ \A k \in 1..Len(seqs) : f[k] = f[k - 1] \o seqs[k]
            /\ FlattenSeq(seqs) = f[Len(seqs)]
    BY <1>5, FlattenUnfolds
  <1>8. Gathers(e, f)
    BY <1>5, <1>6, <1>7 DEF Gathers, seqs
  <1>9. QED
    BY <1>8 DEF Gathered

(***************************************************************************)
(* A concatenation begins with its first part.                             *)
(***************************************************************************)
LEMMA ConcatKeeps ==
    ASSUME NEW S, NEW s1 \in Seq(S), NEW s2 \in Seq(S), NEW i \in 1..Len(s1)
    PROVE  i \in 1..Len(s1 \o s2) /\ (s1 \o s2)[i] = s1[i]
  <1>1. Len(s1 \o s2) = Len(s1) + Len(s2)
    BY ConcatProperties
  <1>2. Len(s1) \in Nat /\ Len(s2) \in Nat
    BY LenProperties
  <1>3. i \in 1..(Len(s1) + Len(s2)) /\ i <= Len(s1)
    BY <1>2
  <1>4. (s1 \o s2)[i] = s1[i]
    BY <1>3, ConcatProperties
  <1>5. QED
    BY <1>1, <1>3, <1>4

(***************************************************************************)
(* What is gathered from some lines begins what is gathered from all.      *)
(***************************************************************************)
LEMMA GatheredGrows ==
    ASSUME NEW e \in Seq(Line), NEW k \in 0..Len(e), NEW i \in 1..Len(Gathered(e)[k])
    PROVE  /\ i \in 1..Len(Gathered(e)[Len(e)])
           /\ Gathered(e)[Len(e)][i] = Gathered(e)[k][i]
  <1> DEFINE G == Gathered(e)
             n == Len(e)
             Kept == {d \in Nat : k + d <= n =>
                        i \in 1..Len(G[k + d]) /\ G[k + d][i] = G[k][i]}
  <1>1. /\ n \in Nat
        /\ \A m \in 0..n : G[m] \in Seq(Capture)
        /\ \A m \in 1..n : G[m] = G[m - 1] \o CapturesOf(e[m])
    BY GatheredExists, LenProperties DEF Gathers
  <1>2. ASSUME NEW m \in 1..n
        PROVE  CapturesOf(e[m]) \in Seq(Capture)
    <2>1. e[m] \in Line
      BY ElementOfSeq
    <2>2. QED
      BY <2>1, EmptySeq DEF CapturesOf, Line
  <1> HIDE DEF G, n
  <1>3. Nat \subseteq Kept
    <2>1. 0 \in Kept
      <3>1. k + 0 = k
        BY DEF n
      <3>2. QED
        BY <3>1 DEF G
    <2>2. ASSUME NEW d \in Nat, d \in Kept
          PROVE  d + 1 \in Kept
      <3> SUFFICES ASSUME k + (d + 1) <= n
                   PROVE  /\ i \in 1..Len(G[k + (d + 1)])
                          /\ G[k + (d + 1)][i] = G[k][i]
        OBVIOUS
      <3> DEFINE m == k + (d + 1)
      <3>1. m \in 1..n /\ m - 1 = k + d /\ m - 1 \in 0..n /\ k + d <= n
        BY <1>1 DEF n
      <3>2. i \in 1..Len(G[m - 1]) /\ G[m - 1][i] = G[k][i]
        BY <2>2, <3>1
      <3>3. G[m] = G[m - 1] \o CapturesOf(e[m])
        BY <1>1, <3>1
      <3>4. G[m - 1] \in Seq(Capture) /\ CapturesOf(e[m]) \in Seq(Capture)
        BY <1>1, <1>2, <3>1
      <3> DEFINE s1 == G[m - 1]
                 s2 == CapturesOf(e[m])
      <3> HIDE DEF m
      <3>5. i \in 1..Len(G[m]) /\ G[m][i] = G[m - 1][i]
        <4>1. s1 \in Seq(Capture) /\ s2 \in Seq(Capture) /\ i \in 1..Len(s1)
          BY <3>2, <3>4
        <4> HIDE DEF s1, s2
        <4>2. i \in 1..Len(s1 \o s2) /\ (s1 \o s2)[i] = s1[i]
          BY <4>1, ConcatKeeps
        <4>3. QED
          BY <3>3, <4>2 DEF s1, s2
      <3>6. QED
        BY <3>2, <3>5 DEF m
    <2> HIDE DEF Kept
    <2>3. QED
      BY <2>1, <2>2, SetInduction
  <1>4. n - k \in Nat /\ k + (n - k) = n
    BY <1>1 DEF n
  <1>5. n - k \in Kept
    BY <1>3, <1>4
  <1>6. QED
    BY <1>1, <1>4, <1>5 DEF G, n

-----------------------------------------------------------------------------
(* The inductive invariant: what has been made of what has been read, and  *)
(* that the rest is still there to be read                                 *)

Read == Len(env) - Len(lines)
Found == Gathered(env)[Read]
Taken == Len(specs) + (IF spec = NoSpec THEN 0 ELSE 1)

Bad(param) == param.key \in {"http", "https"} /\ param.value = BadPort

(* The port that the first p parameters give a protocol.                   *)
SoFar(ps, p, key, default, port) ==
    \/ port = NoPort /\ \A i \in 1..p : ps[i].key # key
    \/ \E m \in 1..p :
        /\ ps[m].key = key
        /\ \A j \in 1..p : ps[j].key = key => j <= m
        /\ port = IF ps[m].value = NoValue THEN default ELSE ps[m].value

LinesLeft ==
    /\ Len(lines) <= Len(env)
    /\ \A i \in 1..Len(lines) : lines[i] = env[Read + i]
    /\ envvar_present <=> \E i \in 1..Read : env[i].envvar

CapturesLeft ==
    /\ Taken + Len(captures) = Len(Found)
    /\ \A i \in 1..Len(captures) : captures[i] = Found[Taken + i]

HalfDone(capture) ==
    LET ps == capture.params
        p == Len(ps) - Len(params)
    IN  /\ Len(params) <= Len(ps)
        /\ \A i \in 1..Len(params) : params[i] = ps[p + i]
        /\ \A i \in 1..p : ~Bad(ps[i])
        /\ spec.domain_name = ChopDot(capture.domain_name)
        /\ SoFar(ps, p, "http", 80, spec.http_port)
        /\ SoFar(ps, p, "https", 443, spec.https_port)

ParamsLeft == IF spec = NoSpec THEN params = <<>> ELSE HalfDone(Found[Taken])

DoneRight(s, capture) ==
    /\ s = Meaning(capture) /\ HasPort(s)
    /\ \A j \in 1..Len(capture.params) : ~Bad(capture.params[j])

SpecsDone == \A i \in 1..Len(specs) : DoneRight(specs[i], Found[i])

ResultInv ==
    /\ result = "ok" => lines = <<>> /\ captures = <<>> /\ spec = NoSpec
    /\ result = "err" => spec # NoSpec /\ params # <<>> /\ Bad(Head(params))

ParserInv == LinesLeft /\ CapturesLeft /\ ParamsLeft /\ SpecsDone /\ ResultInv

(***************************************************************************)
(* What has been found so far are domains, as many as have been taken up   *)
(* or are left of the line.                                                *)
(***************************************************************************)
LEMMA FoundType ==
    ASSUME TypeOK, LinesLeft
    PROVE  /\ env \in Seq(Line) /\ Len(env) \in Nat /\ Len(lines) \in Nat
           /\ Read \in 0..Len(env)
           /\ Found \in Seq(Capture) /\ Len(Found) \in Nat
  <1>1. env \in Seq(Line)
    BY EnvsAssumption DEF TypeOK
  <1>2. Len(env) \in Nat /\ Len(lines) \in Nat
    BY <1>1, LenProperties DEF TypeOK
  <1>3. Read \in 0..Len(env)
    BY <1>2 DEF Read, LinesLeft
  <1>4. Found \in Seq(Capture)
    BY <1>1, <1>3, GatheredExists DEF Gathers, Found
  <1>5. QED
    BY <1>1, <1>2, <1>3, <1>4, LenProperties

(***************************************************************************)
(* One more parameter: the last mention of a protocol wins.                *)
(***************************************************************************)
LEMMA SoFarStep ==
    ASSUME NEW ps, NEW p \in Nat, NEW key, NEW default, NEW port,
           SoFar(ps, p, key, default, port)
    PROVE  /\ ps[p + 1].key # key => SoFar(ps, p + 1, key, default, port)
           /\ ps[p + 1].key = key =>
                SoFar(ps, p + 1, key, default,
                      IF ps[p + 1].value = NoValue THEN default ELSE ps[p + 1].value)
  <1>1. \A i \in 1..(p + 1) : i \in 1..p \/ i = p + 1
    OBVIOUS
  <1>2. \A i \in 1..p : i \in 1..(p + 1)
    OBVIOUS
  <1>3. ASSUME ps[p + 1].key # key
        PROVE  SoFar(ps, p + 1, key, default, port)
    <2>1. CASE port = NoPort /\ \A i \in 1..p : ps[i].key # key
      BY <1>1, <1>3, <2>1 DEF SoFar
    <2>2. ASSUME NEW m \in 1..p,
                 ps[m].key = key,
                 \A j \in 1..p : ps[j].key = key => j <= m,
                 port = IF ps[m].value = NoValue THEN default ELSE ps[m].value
          PROVE  SoFar(ps, p + 1, key, default, port)
      <3>1. \A j \in 1..(p + 1) : ps[j].key = key => j <= m
        BY <1>1, <1>3, <2>2
      <3>2. QED
        BY <1>2, <2>2, <3>1 DEF SoFar
    <2>3. QED
      BY <2>1, <2>2 DEF SoFar
  <1>4. ASSUME ps[p + 1].key = key
        PROVE  SoFar(ps, p + 1, key, default,
                     IF ps[p + 1].value = NoValue THEN default ELSE ps[p + 1].value)
    <2>1. p + 1 \in 1..(p + 1) /\ \A j \in 1..(p + 1) : j <= p + 1
      OBVIOUS
    <2>2. QED
      BY <1>4, <2>1 DEF SoFar
  <1>5. QED
    BY <1>3, <1>4

(***************************************************************************)
(* When all parameters of a domain have been seen, PortOf agrees.          *)
(***************************************************************************)
LEMMA SoFarIsPortOf ==
    ASSUME NEW ps \in Seq(Param), NEW key \in {"http", "https"},
           NEW default \in Ports, NEW port,
           SoFar(ps, Len(ps), key, default, port),
           \A i \in 1..Len(ps) : ~Bad(ps[i])
    PROVE  /\ Mentions(ps, key) = {} => port = NoPort
           /\ Mentions(ps, key) # {} =>
                port = PortOf(ps, key, default) /\ port \in Ports
  <1>1. DOMAIN ps = 1..Len(ps)
    BY LenProperties
  <1>2. CASE port = NoPort /\ \A i \in 1..Len(ps) : ps[i].key # key
    BY <1>1, <1>2 DEF Mentions
  <1>3. ASSUME NEW m \in 1..Len(ps),
               ps[m].key = key,
               \A j \in 1..Len(ps) : ps[j].key = key => j <= m,
               port = IF ps[m].value = NoValue THEN default ELSE ps[m].value
        PROVE  /\ Mentions(ps, key) # {} /\ port = PortOf(ps, key, default)
               /\ port \in Ports
    <2> DEFINE last == CHOOSE i \in Mentions(ps, key) : \A j \in Mentions(ps, key) : j <= i
    <2>1. m \in Mentions(ps, key) /\ \A j \in Mentions(ps, key) : j <= m
      BY <1>1, <1>3 DEF Mentions
    <2>2. last \in Mentions(ps, key) /\ \A j \in Mentions(ps, key) : j <= last
      BY <2>1
    <2>3. last \in 1..Len(ps) /\ Len(ps) \in Nat
      BY <1>1, <2>2, LenProperties DEF Mentions
    <2>4. last = m
      <3> HIDE DEF last
      <3>1. m <= last /\ last <= m
        BY <2>1, <2>2
      <3>2. QED
        BY <1>3, <2>3, <3>1
    <2>5. PortOf(ps, key, default)
            = IF ps[last].value = NoValue THEN default ELSE ps[last].value
      BY <2>1 DEF PortOf
    <2> HIDE DEF last
    <2>6. ps[m] \in Param /\ ps[m].value # BadPort
      BY <1>3, ElementOfSeq DEF Bad
    <2>7. port \in Ports
      BY <1>3, <2>6 DEF Param
    <2>8. QED
      BY <1>3, <2>1, <2>4, <2>5, <2>7
  <1>4. QED
    BY <1>2, <1>3 DEF SoFar

(***************************************************************************)
(* A specification that holds what all the parameters of a domain say      *)
(* needs only WithDefaults to mean what USAGE says, and to have a port.    *)
(***************************************************************************)
LEMMA MeaningFromSoFar ==
    ASSUME NEW c \in Capture, NEW s \in ParsedSpec,
           s.domain_name = ChopDot(c.domain_name),
           \A i \in 1..Len(c.params) : ~Bad(c.params[i]),
           SoFar(c.params, Len(c.params), "http", 80, s.http_port),
           SoFar(c.params, Len(c.params), "https", 443, s.https_port)
    PROVE  WithDefaults(s) = Meaning(c) /\ HasPort(WithDefaults(s))
  <1> DEFINE ps == c.params
             http == Mentions(ps, "http")
             https == Mentions(ps, "https")
  <1>1. ps \in Seq(Param) /\ 80 \in Ports /\ 443 \in Ports
    BY DefaultPorts DEF Capture
  <1>2. /\ http = {} => s.http_port = NoPort
        /\ http # {} => s.http_port = PortOf(ps, "http", 80) /\ s.http_port \in Ports
    BY <1>1, SoFarIsPortOf
  <1>3. /\ https = {} => s.https_port = NoPort
        /\ https # {} => s.https_port = PortOf(ps, "https", 443) /\ s.https_port \in Ports
    BY <1>1, SoFarIsPortOf
  <1>4. NoPort \notin Ports
    BY SentinelsAssumption
  <1>5. s = [domain_name |-> s.domain_name, http_port |-> s.http_port,
             https_port |-> s.https_port]
    BY DEF ParsedSpec
  <1>6. CASE http = {} /\ https = {}
    <2>1. PortOf(ps, "http", 80) = 80 /\ PortOf(ps, "https", 443) = 443
      BY <1>6 DEF PortOf
    <2>2. WithDefaults(s) = [domain_name |-> ChopDot(c.domain_name),
                             http_port |-> 80, https_port |-> 443]
      BY <1>2, <1>3, <1>5, <1>6 DEF WithDefaults
    <2>3. HasPort(WithDefaults(s))
      BY <1>1, <1>4, <2>2 DEF HasPort
    <2>4. QED
      BY <2>1, <2>2, <2>3 DEF Meaning
  <1>7. CASE http # {} \/ https # {}
    <2>1. s.http_port = PortOf(ps, "http", 80)
      BY <1>2, <1>7 DEF PortOf
    <2>2. s.https_port = PortOf(ps, "https", 443)
      BY <1>3, <1>7 DEF PortOf
    <2>3. WithDefaults(s) = s
      BY <1>2, <1>3, <1>4, <1>7 DEF WithDefaults
    <2>4. HasPort(WithDefaults(s))
      BY <1>2, <1>3, <1>4, <1>7, <2>3 DEF HasPort
    <2>5. QED
      BY <1>5, <2>1, <2>2, <2>3, <2>4 DEF Meaning
  <1>8. QED
    BY <1>6, <1>7

-----------------------------------------------------------------------------
(* The invariant is inductive, one action at a time *)

(***************************************************************************)
(* The next line, of the variable or not, adds its domains to those found. *)
(***************************************************************************)
LEMMA TakeLineStep == TypeOK /\ ParserInv /\ TakeLine => ParserInv'
  <1> SUFFICES ASSUME TypeOK, ParserInv, TakeLine
               PROVE  ParserInv'
    OBVIOUS
  <1> DEFINE line == Head(lines)
             new == CapturesOf(line)
  <1>1. /\ env \in Seq(Line) /\ Len(env) \in Nat /\ Len(lines) \in Nat
        /\ Read \in 0..Len(env) /\ Found \in Seq(Capture) /\ Len(Found) \in Nat
    BY FoundType DEF ParserInv
  <1>2. lines \in Seq(Line) /\ lines # <<>> /\ Len(lines) > 0
    BY EmptySeq DEF TypeOK, TakeLine
  <1>3. /\ line = lines[1] /\ line \in Line
        /\ Len(Tail(lines)) = Len(lines) - 1
        /\ \A i \in 1..(Len(lines) - 1) : Tail(lines)[i] = lines[i + 1]
    BY <1>2, HeadTailProperties
  <1>4. new \in Seq(Capture)
    BY <1>3, EmptySeq DEF CapturesOf, Line
  <1>5. /\ env' = env /\ Len(lines') = Len(lines) - 1 /\ Read' = Read + 1
        /\ Read + 1 \in 1..Len(env) /\ env[Read + 1] = line
    BY <1>1, <1>2, <1>3 DEF TakeLine, Read, ParserInv, LinesLeft
  <1>6. Found' = Found \o new
    <2>1. \A k \in 1..Len(env) :
            Gathered(env)[k] = Gathered(env)[k - 1] \o CapturesOf(env[k])
      BY <1>1, GatheredExists DEF Gathers
    <2>2. Gathered(env)[Read + 1] = Gathered(env)[(Read + 1) - 1] \o CapturesOf(env[Read + 1])
      BY <1>5, <2>1
    <2>3. (Read + 1) - 1 = Read
      BY <1>1
    <2>4. QED
      BY <1>5, <2>2, <2>3 DEF Found
  <1>7. /\ captures' = new /\ UNCHANGED <<params, spec, specs, result>>
        /\ spec = NoSpec /\ captures = <<>> /\ result = "parsing"
    BY DEF TakeLine, CapturesOf
  <1>8. Len(specs) \in Nat /\ Taken = Len(specs) /\ Taken' = Taken /\ Len(Found) = Taken
    BY <1>1, <1>7, LenProperties DEF Taken, TypeOK, ParserInv, CapturesLeft
  <1> HIDE DEF new
  <1>9. LinesLeft'
    <2>1. \A i \in 1..Len(lines') : lines'[i] = env[Read' + i]
      BY <1>1, <1>2, <1>3, <1>5 DEF ParserInv, LinesLeft, TakeLine
    <2>2. \A i \in 1..(Read + 1) : i \in 1..Read \/ i = Read + 1
      BY <1>1
    <2>3. envvar_present' <=> (envvar_present \/ line.envvar)
      BY <1>3 DEF TakeLine, TypeOK, Line
    <2>4. envvar_present' <=> \E i \in 1..Read' : env[i].envvar
      BY <1>1, <1>5, <2>2, <2>3 DEF ParserInv, LinesLeft
    <2>5. QED
      BY <1>1, <1>5, <2>1, <2>4 DEF ParserInv, LinesLeft
  <1>10. /\ Len(Found') = Len(Found) + Len(new)
         /\ \A i \in 1..Len(new) : Found'[Len(Found) + i] = new[i]
         /\ \A i \in 1..Len(Found) : Found'[i] = Found[i]
    <2>1. Len(new) \in Nat
      BY <1>4, LenProperties
    <2>2. Len(Found \o new) = Len(Found) + Len(new)
      BY <1>1, <1>4, ConcatProperties
    <2>3. \A i \in 1..(Len(Found) + Len(new)) :
            (Found \o new)[i] = IF i <= Len(Found) THEN Found[i] ELSE new[i - Len(Found)]
      BY <1>1, <1>4, ConcatProperties
    <2>4. ASSUME NEW i \in 1..Len(new)
          PROVE  (Found \o new)[Len(Found) + i] = new[i]
      <3>1. /\ Len(Found) + i \in 1..(Len(Found) + Len(new))
            /\ ~(Len(Found) + i <= Len(Found))
            /\ (Len(Found) + i) - Len(Found) = i
        BY <1>1, <2>1
      <3>2. QED
        BY <2>3, <3>1
    <2>5. \A i \in 1..Len(Found) : (Found \o new)[i] = Found[i]
      BY <1>1, <2>1, <2>3
    <2>6. QED
      BY <1>6, <2>2, <2>4, <2>5
  <1>11. CapturesLeft'
    BY <1>7, <1>8, <1>10 DEF CapturesLeft
  <1>12. ParamsLeft'
    BY <1>7 DEF ParserInv, ParamsLeft
  <1>13. SpecsDone'
    BY <1>7, <1>8, <1>10 DEF ParserInv, SpecsDone
  <1>14. QED
    BY <1>7, <1>9, <1>11, <1>12, <1>13 DEF ParserInv, ResultInv

(***************************************************************************)
(* The next domain of the line is the one that follows those taken, and a  *)
(* specification without ports is right while no parameter has been seen.  *)
(***************************************************************************)
LEMMA TakeCaptureStep == TypeOK /\ ParserInv /\ TakeCapture => ParserInv'
  <1> SUFFICES ASSUME TypeOK, ParserInv, TakeCapture
               PROVE  ParserInv'
    OBVIOUS
  <1> DEFINE c == Head(captures)
  <1>1. Found \in Seq(Capture) /\ Len(Found) \in Nat
    BY FoundType DEF ParserInv
  <1>2. captures \in Seq(Capture) /\ captures # <<>> /\ Len(captures) \in Nat
    BY LenProperties DEF TypeOK, TakeCapture
  <1>3. /\ Len(captures) > 0 /\ c = captures[1] /\ c \in Capture
        /\ Len(Tail(captures)) = Len(captures) - 1
        /\ \A i \in 1..(Len(captures) - 1) : Tail(captures)[i] = captures[i + 1]
    BY <1>2, EmptySeq, HeadTailProperties
  <1>4. /\ UNCHANGED <<env, lines, specs, envvar_present, result>>
        /\ spec = NoSpec /\ result = "parsing"
        /\ captures' = Tail(captures) /\ params' = c.params
        /\ spec' = [NoSpec EXCEPT !.domain_name = ChopDot(c.domain_name)]
    BY DEF TakeCapture
  <1>5. /\ spec'.domain_name = ChopDot(c.domain_name)
        /\ spec'.http_port = NoPort /\ spec'.https_port = NoPort
    BY <1>4 DEF NoSpec
  <1>6. spec' # NoSpec
    BY <1>3, <1>5, ChopDotType, SentinelsAssumption DEF NoSpec
  <1>7. Len(specs) \in Nat /\ Taken = Len(specs) /\ Taken' = Taken + 1
    BY <1>4, <1>6, LenProperties DEF Taken, TypeOK
  <1>8. Found' = Found /\ Read' = Read
    BY <1>4 DEF Found, Read
  <1>9. c = Found[Taken + 1]
    BY <1>2, <1>3 DEF ParserInv, CapturesLeft
  <1>10. LinesLeft'
    BY <1>4, <1>8 DEF ParserInv, LinesLeft
  <1>11. CapturesLeft'
    <2>1. Taken' + Len(captures') = Len(Found')
      BY <1>1, <1>2, <1>3, <1>4, <1>7, <1>8 DEF ParserInv, CapturesLeft
    <2>2. \A i \in 1..Len(captures') : captures'[i] = Found'[Taken' + i]
      BY <1>2, <1>3, <1>4, <1>7, <1>8 DEF ParserInv, CapturesLeft
    <2>3. QED
      BY <2>1, <2>2 DEF CapturesLeft
  <1>12. ParamsLeft'
    <2>1. Len(c.params) \in Nat /\ Len(c.params) - Len(c.params) = 0
      BY <1>3, LenProperties DEF Capture
    <2>2. Found'[Taken'] = c
      BY <1>7, <1>8, <1>9
    <2>3. HalfDone(Found[Taken])'
      BY <1>4, <1>5, <2>1, <2>2 DEF HalfDone, SoFar
    <2>4. QED
      BY <1>6, <2>3 DEF ParamsLeft
  <1>13. QED
    BY <1>4, <1>8, <1>10, <1>11, <1>12 DEF ParserInv, SpecsDone, ResultInv

(***************************************************************************)
(* One parameter more, whatever it says, if it is not malformed.           *)
(***************************************************************************)
LEMMA ParamStep ==
    ASSUME TypeOK, ParserInv, TypeOK', NextParam, result = "parsing",
           spec # NoSpec, params # <<>>, ~Bad(Head(params)),
           spec' # NoSpec, spec'.domain_name = spec.domain_name,
           \A ps : \A p \in Nat :
             /\ ps[p + 1] = Head(params)
             /\ SoFar(ps, p, "http", 80, spec.http_port)
             /\ SoFar(ps, p, "https", 443, spec.https_port)
             => /\ SoFar(ps, p + 1, "http", 80, spec'.http_port)
                /\ SoFar(ps, p + 1, "https", 443, spec'.https_port)
    PROVE  ParserInv'
  <1> DEFINE c == Found[Taken]
             ps == c.params
             p == Len(ps) - Len(params)
  <1>1. Found \in Seq(Capture) /\ Len(Found) \in Nat
    BY FoundType DEF ParserInv
  <1>2. /\ params' = Tail(params)
        /\ UNCHANGED <<env, lines, captures, specs, envvar_present, result>>
    BY DEF NextParam
  <1>3. Found' = Found /\ Read' = Read /\ Taken' = Taken
    BY <1>2 DEF Found, Read, Taken
  <1>4. c \in Capture
    <2>1. Len(captures) \in Nat /\ Len(specs) \in Nat
      BY LenProperties DEF TypeOK
    <2>2. Taken \in 1..Len(Found)
      BY <1>1, <2>1 DEF ParserInv, CapturesLeft, Taken
    <2>3. QED
      BY <1>1, <2>2, ElementOfSeq
  <1>5. Len(ps) \in Nat /\ Len(params) \in Nat /\ ps \in Seq(Param) /\ params \in Seq(Param)
    BY <1>4, LenProperties DEF Capture, TypeOK
  <1>6. /\ Len(params) > 0 /\ Head(params) = params[1]
        /\ Len(Tail(params)) = Len(params) - 1
        /\ \A i \in 1..(Len(params) - 1) : Tail(params)[i] = params[i + 1]
    BY <1>5, EmptySeq, HeadTailProperties
  <1>7. /\ Len(params) <= Len(ps)
        /\ \A i \in 1..Len(params) : params[i] = ps[p + i]
        /\ \A i \in 1..p : ~Bad(ps[i])
        /\ spec.domain_name = ChopDot(c.domain_name)
        /\ SoFar(ps, p, "http", 80, spec.http_port)
        /\ SoFar(ps, p, "https", 443, spec.https_port)
    BY DEF ParserInv, ParamsLeft, HalfDone
  <1> HIDE DEF c
  <1>8. p \in Nat /\ Len(params') = Len(params) - 1 /\ Len(ps) - Len(params') = p + 1
    BY <1>2, <1>5, <1>6, <1>7
  <1>9. ps[p + 1] = Head(params)
    BY <1>5, <1>6, <1>7
  <1>10. /\ SoFar(ps, p + 1, "http", 80, spec'.http_port)
         /\ SoFar(ps, p + 1, "https", 443, spec'.https_port)
    BY <1>7, <1>8, <1>9
  <1>11. \A i \in 1..(p + 1) : ~Bad(ps[i])
    <2>1. \A i \in 1..(p + 1) : i \in 1..p \/ i = p + 1
      BY <1>8
    <2>2. QED
      BY <1>7, <1>9, <2>1
  <1>12. \A i \in 1..Len(params') : params'[i] = ps[(p + 1) + i]
    <2> SUFFICES ASSUME NEW i \in 1..Len(params')
                 PROVE  params'[i] = ps[(p + 1) + i]
      OBVIOUS
    <2>1. params'[i] = params[i + 1]
      BY <1>2, <1>6
    <2>2. i \in Nat /\ p + (i + 1) = (p + 1) + i
      <3>1. i \in 1..(Len(params) - 1) /\ Len(params) \in Nat
        BY <1>5, <1>8
      <3>2. i \in Nat /\ p \in Nat
        BY <1>8, <3>1
      <3> HIDE DEF p
      <3>3. QED
        BY <3>2
    <2>3. \A k \in 1..Len(params) : params[k] = ps[p + k]
      BY <1>7
    <2>4. i + 1 \in 1..Len(params)
      BY <1>2, <1>5, <1>6
    <2>5. params[i + 1] = ps[p + (i + 1)]
      BY <2>3, <2>4
    <2>6. QED
      BY <2>1, <2>2, <2>5
  <1>13. HalfDone(Found[Taken])'
    <2>1. Found'[Taken'] = c
      BY <1>3 DEF c
    <2>2. Len(params') <= Len(ps)
      BY <1>5, <1>7, <1>8
    <2>3. QED
      BY <1>7, <1>8, <1>10, <1>11, <1>12, <2>1, <2>2 DEF HalfDone
  <1>14. ParamsLeft'
    BY <1>13 DEF ParamsLeft
  <1>15. LinesLeft' /\ CapturesLeft' /\ SpecsDone'
    BY <1>2, <1>3 DEF ParserInv, LinesLeft, CapturesLeft, SpecsDone
  <1>16. QED
    BY <1>2, <1>14, <1>15 DEF ParserInv, ResultInv

(***************************************************************************)
(* The three ways to pass a parameter: a port for one of the protocols, or *)
(* nothing.                                                                *)
(***************************************************************************)
LEMMA PassParamStep ==
    TypeOK /\ ParserInv /\ TypeOK' /\ (HttpParam \/ HttpsParam \/ UnknownParam)
        => ParserInv'
  <1> SUFFICES ASSUME TypeOK, ParserInv, TypeOK', HttpParam \/ HttpsParam \/ UnknownParam
               PROVE  ParserInv'
    OBVIOUS
  <1>1. /\ result = "parsing" /\ spec # NoSpec /\ params # <<>> /\ NextParam
        /\ ~Bad(Head(params))
    BY DEF HttpParam, HttpsParam, UnknownParam, AtParam, Bad
  <1>2. spec \in ParsedSpec
    BY <1>1 DEF TypeOK
  <1>3. spec.domain_name \in DomainNames
    BY <1>2 DEF ParsedSpec
  <1>4. /\ spec'.domain_name = spec.domain_name
        /\ spec'.http_port = IF Head(params).key = "http" THEN PortOr(80) ELSE spec.http_port
        /\ spec'.https_port = IF Head(params).key = "https" THEN PortOr(443) ELSE spec.https_port
    BY <1>2 DEF HttpParam, HttpsParam, UnknownParam, AtParam, ParsedSpec
  <1>5. spec' # NoSpec
    BY <1>3, <1>4, SentinelsAssumption DEF NoSpec
  <1>6. ASSUME NEW ps, NEW p \in Nat,
               ps[p + 1] = Head(params),
               SoFar(ps, p, "http", 80, spec.http_port),
               SoFar(ps, p, "https", 443, spec.https_port)
        PROVE  /\ SoFar(ps, p + 1, "http", 80, spec'.http_port)
               /\ SoFar(ps, p + 1, "https", 443, spec'.https_port)
    <2>1. SoFar(ps, p + 1, "http", 80, spec'.http_port)
      BY <1>4, <1>6, SoFarStep DEF PortOr
    <2>2. SoFar(ps, p + 1, "https", 443, spec'.https_port)
      BY <1>4, <1>6, SoFarStep DEF PortOr
    <2>3. QED
      BY <2>1, <2>2
  <1>7. QED
    BY <1>1, <1>4, <1>5, <1>6, ParamStep

(***************************************************************************)
(* What is pushed when the parameters are used up means what USAGE says.   *)
(***************************************************************************)
LEMMA PushSpecStep == TypeOK /\ ParserInv /\ PushSpec => ParserInv'
  <1> SUFFICES ASSUME TypeOK, ParserInv, PushSpec
               PROVE  ParserInv'
    OBVIOUS
  <1> DEFINE c == Found[Taken]
  <1>1. Found \in Seq(Capture) /\ Len(Found) \in Nat
    BY FoundType DEF ParserInv
  <1>2. /\ spec # NoSpec /\ params = <<>> /\ spec' = NoSpec /\ result = "parsing"
        /\ specs' = Append(specs, WithDefaults(spec))
        /\ UNCHANGED <<env, lines, captures, params, envvar_present, result>>
    BY DEF PushSpec
  <1>3. /\ spec \in ParsedSpec /\ specs \in Seq(ParsedSpec)
        /\ Len(specs) \in Nat /\ Len(captures) \in Nat
    BY <1>2, LenProperties DEF TypeOK
  <1>4. WithDefaults(spec) \in ParsedSpec
    <2>1. 80 \in Ports /\ 443 \in Ports
      BY DefaultPorts
    <2>2. QED
      BY <1>3, <2>1 DEF WithDefaults, ParsedSpec
  <1>5. /\ Len(specs') = Len(specs) + 1
        /\ \A i \in 1..Len(specs) : specs'[i] = specs[i]
        /\ specs'[Len(specs) + 1] = WithDefaults(spec)
    BY <1>2, <1>3, <1>4, AppendProperties
  <1>6. Found' = Found /\ Read' = Read /\ Taken' = Taken /\ Taken = Len(specs) + 1
    BY <1>2, <1>3, <1>5 DEF Found, Read, Taken
  <1>7. c \in Capture
    <2>1. Taken \in 1..Len(Found)
      BY <1>1, <1>3, <1>6 DEF ParserInv, CapturesLeft
    <2>2. QED
      BY <1>1, <2>1, ElementOfSeq
  <1>8. DoneRight(WithDefaults(spec), c)
    <2>1. Len(params) = 0 /\ Len(c.params) \in Nat
      BY <1>2, <1>7, EmptySeq, LenProperties DEF Capture
    <2>2. Len(c.params) - Len(params) = Len(c.params)
      BY <2>1
    <2>3. /\ \A i \in 1..Len(c.params) : ~Bad(c.params[i])
          /\ spec.domain_name = ChopDot(c.domain_name)
          /\ SoFar(c.params, Len(c.params), "http", 80, spec.http_port)
          /\ SoFar(c.params, Len(c.params), "https", 443, spec.https_port)
      BY <1>2, <2>2 DEF ParserInv, ParamsLeft, HalfDone
    <2>4. QED
      BY <1>3, <1>7, <2>3, MeaningFromSoFar DEF DoneRight
  <1> HIDE DEF c
  <1>9. SpecsDone'
    <2>1. ASSUME NEW i \in 1..Len(specs')
          PROVE  DoneRight(specs'[i], Found[i])
      <3>1. CASE i \in 1..Len(specs)
        BY <1>5, <3>1 DEF ParserInv, SpecsDone
      <3>2. CASE i = Len(specs) + 1
        BY <1>5, <1>6, <1>8, <3>2 DEF c
      <3>3. QED
        BY <1>3, <1>5, <3>1, <3>2
    <2>2. QED
      BY <1>6, <2>1 DEF SpecsDone
  <1>10. LinesLeft' /\ CapturesLeft' /\ ParamsLeft'
    BY <1>2, <1>6 DEF ParserInv, LinesLeft, CapturesLeft, ParamsLeft
  <1>11. QED
    BY <1>2, <1>9, <1>10 DEF ParserInv, ResultInv

(***************************************************************************)
(* ParserInv holds of every run: what is done is right, and nothing that   *)
(* is left to do has been lost.                                            *)
(***************************************************************************)
LEMMA ParserInvHolds == Spec => [](TypeOK /\ ParserInv)
  <1>1. Init => ParserInv
    <2> SUFFICES ASSUME Init PROVE ParserInv
      OBVIOUS
    <2>1. env \in Seq(Line) /\ Len(env) \in Nat /\ Gathered(env)[0] = <<>>
      BY EnvsAssumption, LenProperties, GatheredExists DEF Init, Gathers
    <2>2. Read = 0 /\ Taken = 0 /\ Found = <<>>
      BY <2>1, EmptySeq DEF Init, Read, Taken, Found
    <2>3. LinesLeft
      BY <2>1, <2>2 DEF Init, LinesLeft
    <2>4. CapturesLeft /\ ParamsLeft /\ SpecsDone /\ ResultInv
      BY <2>2, EmptySeq DEF Init, CapturesLeft, ParamsLeft, SpecsDone, ResultInv
    <2>5. QED
      BY <2>3, <2>4 DEF ParserInv
  <1>2. TypeOK /\ ParserInv /\ [Next]_vars => ParserInv'
    <2> SUFFICES ASSUME TypeOK, ParserInv, [Next]_vars
                 PROVE  ParserInv'
      OBVIOUS
    <2>1. TypeOK'
      BY TypeStep
    <2>2. CASE TakeLine
      BY <2>2, TakeLineStep
    <2>3. CASE TakeCapture
      BY <2>3, TakeCaptureStep
    <2>4. CASE HttpParam \/ HttpsParam \/ UnknownParam
      BY <2>1, <2>4, PassParamStep
    <2>5. ASSUME UNCHANGED <<env, lines, captures, params, spec, specs, envvar_present>>
          PROVE  ResultInv' => ParserInv'
      BY <2>5 DEF ParserInv, LinesLeft, CapturesLeft, ParamsLeft, HalfDone,
                  SpecsDone, Found, Read, Taken
    <2>6. CASE BadParam
      BY <2>5, <2>6 DEF BadParam, AtParam, ResultInv, Bad
    <2>7. CASE PushSpec
      BY <2>7, PushSpecStep
    <2>8. CASE Finish
      BY <2>5, <2>8 DEF Finish, ResultInv
    <2>9. CASE UNCHANGED vars
      BY <2>5, <2>9 DEF vars, ParserInv, ResultInv, Bad
    <2>10. QED
      BY <2>2, <2>3, <2>4, <2>6, <2>7, <2>8, <2>9 DEF Next, Parsed
  <1>3. QED
    BY <1>1, <1>2, TypeCorrect, PTL DEF Spec

-----------------------------------------------------------------------------
(* What the parsers promise *)

(***************************************************************************)
(* OfVariable is what has been found when all lines have been read, and    *)
(* what has been found before is its beginning.                            *)
(***************************************************************************)
LEMMA AllFound ==
    ASSUME TypeOK, LinesLeft
    PROVE  /\ OfVariable \in Seq(Capture)
           /\ lines = <<>> => OfVariable = Found
           /\ \A i \in 1..Len(Found) :
                i \in 1..Len(OfVariable) /\ OfVariable[i] = Found[i]
  <1>1. env \in Seq(Line) /\ Len(env) \in 0..Len(env) /\ Read \in 0..Len(env)
    BY FoundType
  <1>2. OfVariable = Gathered(env)[Len(env)]
    BY <1>1, GatheredExists DEF OfVariable, Gathers
  <1>3. OfVariable \in Seq(Capture)
    BY <1>1, <1>2, GatheredExists DEF Gathers
  <1>4. ASSUME lines = <<>>
        PROVE  OfVariable = Found
    <2>1. Read = Len(env)
      BY <1>1, <1>4, EmptySeq DEF Read
    <2>2. QED
      BY <1>2, <2>1 DEF Found
  <1>5. ASSUME NEW i \in 1..Len(Found)
        PROVE  i \in 1..Len(OfVariable) /\ OfVariable[i] = Found[i]
    BY <1>1, <1>2, <1>5, GatheredGrows DEF Found
  <1>6. QED
    BY <1>3, <1>4, <1>5

(***************************************************************************)
(* At the end every domain of the variable has its specification.          *)
(***************************************************************************)
LEMMA DoneAtTheEnd ==
    ASSUME TypeOK, ParserInv, result = "ok"
    PROVE  /\ OfVariable \in Seq(Capture) /\ OfVariable = Found
           /\ DOMAIN OfVariable = 1..Len(OfVariable)
           /\ DOMAIN specs = DOMAIN OfVariable
           /\ \A i \in DOMAIN OfVariable : DoneRight(specs[i], OfVariable[i])
  <1>1. lines = <<>> /\ captures = <<>> /\ spec = NoSpec
    BY DEF ParserInv, ResultInv
  <1>2. OfVariable \in Seq(Capture) /\ OfVariable = Found
    BY <1>1, AllFound DEF ParserInv
  <1>3. specs \in Seq(ParsedSpec) /\ Len(specs) \in Nat /\ DOMAIN specs = 1..Len(specs)
    BY LenProperties DEF TypeOK
  <1>4. Len(specs) = Len(OfVariable)
    BY <1>1, <1>2, <1>3, EmptySeq DEF ParserInv, CapturesLeft, Taken
  <1>5. DOMAIN OfVariable = 1..Len(OfVariable)
    BY <1>2, LenProperties
  <1>6. \A i \in 1..Len(specs) : DoneRight(specs[i], OfVariable[i])
    BY <1>2 DEF ParserInv, SpecsDone
  <1>7. QED
    BY <1>2, <1>3, <1>4, <1>5, <1>6

(***************************************************************************)
(* ParsesAsDocumented for every environment: parse_all yields exactly the  *)
(* domains of the variable, in order, with the ports USAGE promises.       *)
(***************************************************************************)
THEOREM ParsesRight == Spec => []ParsesAsDocumented
  <1>1. TypeOK /\ ParserInv => ParsesAsDocumented
    <2> SUFFICES ASSUME TypeOK, ParserInv, result = "ok"
                 PROVE  /\ specs = [i \in DOMAIN OfVariable |-> Meaning(OfVariable[i])]
                        /\ envvar_present <=> \E i \in DOMAIN env : env[i].envvar
      BY DEF ParsesAsDocumented
    <2>1. specs \in [1..Len(specs) -> ParsedSpec]
      BY LenProperties DEF TypeOK
    <2>2. specs = [i \in DOMAIN OfVariable |-> Meaning(OfVariable[i])]
      BY <2>1, DoneAtTheEnd DEF DoneRight
    <2>3. lines = <<>> /\ DOMAIN env = 1..Len(env) /\ Read = Len(env)
      BY FoundType, LenProperties, EmptySeq DEF ParserInv, ResultInv, Read
    <2>4. envvar_present <=> \E i \in DOMAIN env : env[i].envvar
      BY <2>3 DEF ParserInv, LinesLeft
    <2>5. QED
      BY <2>2, <2>4
  <1>2. QED
    BY <1>1, ParserInvHolds, PTL

(***************************************************************************)
(* FailsIffMalformed for every environment: a container is given up        *)
(* exactly for a malformed port, wherever in the variable it is.           *)
(***************************************************************************)
THEOREM FailsRight == Spec => []FailsIffMalformed
  <1> DEFINE Malformed == \E i \in DOMAIN OfVariable :
                            \E p \in DOMAIN OfVariable[i].params :
                                Bad(OfVariable[i].params[p])
  <1>1. ASSUME TypeOK, ParserInv, result = "ok"
        PROVE  ~Malformed
    <2>1. ASSUME NEW i \in DOMAIN OfVariable, NEW p \in DOMAIN OfVariable[i].params
          PROVE  ~Bad(OfVariable[i].params[p])
      <3>1. OfVariable[i] \in Capture /\ DoneRight(specs[i], OfVariable[i])
        BY <1>1, DoneAtTheEnd, ElementOfSeq
      <3>2. DOMAIN OfVariable[i].params = 1..Len(OfVariable[i].params)
        BY <3>1, LenProperties DEF Capture
      <3>3. QED
        BY <3>1, <3>2 DEF DoneRight
    <2>2. QED
      BY <2>1
  <1>2. ASSUME TypeOK, ParserInv, result = "err"
        PROVE  Malformed
    <2> DEFINE c == Found[Taken]
               p == Len(c.params) - Len(params)
    <2>1. spec # NoSpec /\ params # <<>> /\ Bad(Head(params)) /\ HalfDone(c)
      BY <1>2 DEF ParserInv, ResultInv, ParamsLeft
    <2>2. Found \in Seq(Capture) /\ Len(Found) \in Nat
      BY <1>2, FoundType DEF ParserInv
    <2>3. Taken \in 1..Len(Found)
      <3>1. Len(captures) \in Nat /\ Len(specs) \in Nat
        BY <1>2, LenProperties DEF TypeOK
      <3>2. QED
        BY <1>2, <2>1, <2>2, <3>1 DEF ParserInv, CapturesLeft, Taken
    <2>4. c \in Capture
      BY <2>2, <2>3, ElementOfSeq
    <2>5. /\ c.params \in Seq(Param) /\ Len(c.params) \in Nat
          /\ DOMAIN c.params = 1..Len(c.params)
      BY <2>4, LenProperties DEF Capture
    <2>6. params \in Seq(Param) /\ Len(params) \in Nat /\ Len(params) > 0
          /\ Head(params) = params[1]
      BY <1>2, <2>1, EmptySeq, LenProperties, HeadTailProperties DEF TypeOK
    <2>7. Len(params) <= Len(c.params) /\ params[1] = c.params[p + 1]
      BY <2>1, <2>6 DEF HalfDone
    <2>8. p + 1 \in DOMAIN c.params /\ Bad(c.params[p + 1])
      BY <2>1, <2>5, <2>6, <2>7
    <2>9. Taken \in DOMAIN OfVariable /\ OfVariable[Taken] = c
      BY <1>2, <2>3, AllFound, LenProperties DEF ParserInv
    <2> HIDE DEF c, p
    <2>10. QED
      BY <2>8, <2>9
  <1>3. TypeOK /\ ParserInv => FailsIffMalformed
    BY <1>1, <1>2 DEF TypeOK, FailsIffMalformed, Bad
  <1>4. QED
    BY <1>3, ParserInvHolds, PTL

(***************************************************************************)
(* DocumentTellsAll for every environment: no specification is left        *)
(* without a port, so nothing of it, nor of the host, is lost on the way   *)
(* into the document.                                                      *)
(***************************************************************************)
THEOREM DocumentsTellAll == Spec => []DocumentTellsAll
  <1>1. TypeOK /\ ParserInv => DocumentTellsAll
    <2> SUFFICES ASSUME TypeOK, ParserInv, result = "ok", NEW host \in Hosts
                 PROVE  LET document == domain_configs(host, specs)
                        IN  /\ Len(document) = Len(OfVariable)
                            /\ \A i \in DOMAIN document :
                                /\ SpecIn(document[i]) = specs[i]
                                /\ HostsIn(document[i]) = {host}
      BY DEF DocumentTellsAll
    <2> DEFINE document == domain_configs(host, specs)
    <2>1. /\ DOMAIN document = 1..Len(OfVariable) /\ Len(OfVariable) \in Nat
          /\ DOMAIN specs = 1..Len(OfVariable)
      BY DoneAtTheEnd, LenProperties DEF domain_configs
    <2>2. Len(document) = Len(OfVariable)
      BY <2>1 DEF domain_configs
    <2>3. ASSUME NEW i \in DOMAIN document
          PROVE  SpecIn(document[i]) = specs[i] /\ HostsIn(document[i]) = {host}
      <3>1. i \in DOMAIN specs /\ document[i] = domain_config(host, specs[i])
        BY DEF domain_configs
      <3>2. specs[i] \in ParsedSpec
        BY <3>1, LenProperties DEF TypeOK
      <3>3. HasPort(specs[i])
        BY <3>1, DoneAtTheEnd DEF DoneRight
      <3> DEFINE s == specs[i]
                 Numbers == Ports \cup {NoPort}
      <3>4. /\ s \in [domain_name : DomainNames, http_port : Numbers, https_port : Numbers]
            /\ HasPort(s)
        BY <3>2, <3>3 DEF ParsedSpec
      <3>5. document[i] = domain_config(host, s)
        BY <3>1
      <3> HIDE DEF s, document, Numbers
      <3>6. SpecIn(domain_config(host, s)) = s /\ HostsIn(domain_config(host, s)) = {host}
        BY <3>4, ObjectTellsAll
      <3>7. QED
        BY <3>5, <3>6 DEF s
    <2>4. QED
      BY <2>2, <2>3
  <1>2. QED
    BY <1>1, ParserInvHolds, PTL

=============================================================================
