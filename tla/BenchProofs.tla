---------------------------- MODULE BenchProofs ----------------------------
(***************************************************************************)
(* Theorems about TestBench: whatever the doubles are set up to answer, a  *)
(* pass is the sum of its containers.                                      *)
(***************************************************************************)
EXTENDS TestBench, FiniteSetTheorems, SequenceTheorems, TLAPS

-----------------------------------------------------------------------------
(* Counting *)

(***************************************************************************)
(* Times counts one more for the element appended, and no other.           *)
(***************************************************************************)
LEMMA TimesAppend ==
    ASSUME NEW S, NEW s \in Seq(S), NEW y \in S, NEW x
    PROVE  /\ Times(x, s) \in Nat
           /\ Times(x, Append(s, y)) = Times(x, s) + (IF x = y THEN 1 ELSE 0)
  <1> DEFINE t == Append(s, y)
             n == Len(s)
             I == {i \in DOMAIN s : s[i] = x}
             J == {i \in DOMAIN t : t[i] = x}
  <1>1. n \in Nat /\ DOMAIN s = 1..n
    BY LenProperties
  <1>2. /\ DOMAIN t = 1..(n + 1) /\ t[n + 1] = y
        /\ \A i \in 1..n : t[i] = s[i]
    BY <1>1, AppendProperties, LenProperties
  <1>3. IsFiniteSet(1..n)
    BY <1>1, FS_Interval
  <1>4. I \subseteq 1..n /\ n + 1 \notin I
    BY <1>1
  <1>5. IsFiniteSet(I) /\ Cardinality(I) \in Nat
    BY <1>3, <1>4, FS_Subset, FS_CardinalityType
  <1>6. J = IF x = y THEN I \cup {n + 1} ELSE I
    BY <1>1, <1>2
  <1> HIDE DEF I, J, t, n
  <1>7. Cardinality(J) = Cardinality(I) + (IF x = y THEN 1 ELSE 0)
    <2>1. Cardinality(I \cup {n + 1}) = Cardinality(I) + 1
      BY <1>4, <1>5, FS_AddElement
    <2>2. QED
      BY <1>5, <1>6, <2>1
  <1>8. QED
    BY <1>5, <1>7 DEF Times, I, J, t

(***************************************************************************)
(* A set of names counts one more with a name that was not in it.          *)
(***************************************************************************)
LEMMA CountName ==
    ASSUME NEW T \in SUBSET Names, NEW n \in Names, n \notin T
    PROVE  /\ Cardinality(T) \in Nat
           /\ Cardinality(T \cup {n}) = Cardinality(T) + 1
  BY NamesAssumption, FS_Subset, FS_CardinalityType, FS_AddElement

-----------------------------------------------------------------------------
(* Type correctness *)

Publication == [host : {HostOf[n] : n \in Names}, specs : Seq(Specs)]

(***************************************************************************)
(* What the mock inspector answers is a failure of a known kind or an      *)
(* inspection, for every name.                                             *)
(***************************************************************************)
LEMMA AnswerType ==
    ASSUME TypeOK, NEW n \in Names
    PROVE  /\ mock_inspect(n) \in Answers
           /\ Failed(mock_inspect(n)) =>
                mock_inspect(n).error \in {"FakeError", "InspectionNotMocked"}
           /\ ~Failed(mock_inspect(n)) =>
                /\ mock_inspect(n).envvar_present \in BOOLEAN
                /\ PublicationOf(n) \in Publication
  <1>1. IsFixture(given)
    BY FixturesAssumption DEF TypeOK
  <1>2. mock_inspect(n) \in Answers
    BY <1>1 DEF IsFixture, mock_inspect, Answers
  <1>3. ASSUME NEW a \in Answers
        PROVE  /\ Failed(a) => a.error \in {"FakeError", "InspectionNotMocked"}
               /\ ~Failed(a) => a.envvar_present \in BOOLEAN /\ a.specs \in Seq(Specs)
    BY DEF Failed, Answers
  <1>4. QED
    BY <1>2, <1>3 DEF PublicationOf, Publication

(***************************************************************************)
(* What one container can do to a pass: it is refreshed once, it is        *)
(* published or not, and it is blamed for one error or none.               *)
(***************************************************************************)
Turn(n) ==
    /\ todo' = todo \ {n}
    /\ \/ ~Accepted(n) /\ UNCHANGED publications
       \/ Accepted(n) /\ publications' = Append(publications, PublicationOf(n))
    /\ \/ (\A e \in CompanionError : ~Blames(e, n)) /\ UNCHANGED errors
       \/ \E f \in CompanionError :
            /\ \A e \in CompanionError : Blames(e, n) <=> e = f
            /\ errors' = Append(errors, f)

(***************************************************************************)
(* refresh_container for one name is such a turn.                          *)
(***************************************************************************)
LEMMA RefreshIsTurn ==
    ASSUME TypeOK, NEW n \in Names, pendings[n] = (n \in given.explicit),
           InspectionFails(n) \/ EnvVarMissing(n) \/ DryRun(n) \/ Publishes(n)
    PROVE  Turn(n)
  <1> USE DEF Accepted, Willing, Refused, Blames, Unreachable, Unlabelled, Error
  <1>1. ASSUME NEW inner \in {"FakeError", "InspectionNotMocked"}
        PROVE  /\ Error("Inspection", inner) \in CompanionError
               /\ Error("EnvVarMissing", "") \in CompanionError
               /\ Error("Publishing", "MockError") \in CompanionError
    BY DEF CompanionError
  <1>2. CASE InspectionFails(n)
    <2>1. Failed(mock_inspect(n)) /\ UNCHANGED publications
      BY <1>2 DEF InspectionFails
    <2>2. Error("Inspection", mock_inspect(n).error) \in CompanionError
      BY <1>1, <2>1, AnswerType
    <2>3. CASE ConsiderError(given.config, pendings[n])
      <3>1. Unreachable(n)
        BY <2>1, <2>3 DEF ConsiderError
      <3>2. \A e \in CompanionError :
              Blames(e, n) <=> e = Error("Inspection", mock_inspect(n).error)
        BY <2>1, <3>1
      <3>3. QED
        BY <1>2, <2>1, <2>2, <2>3, <3>2 DEF InspectionFails, push_error, Turn
    <2>4. CASE ~ConsiderError(given.config, pendings[n])
      <3>1. \A e \in CompanionError : ~Blames(e, n)
        BY <2>1, <2>4 DEF ConsiderError
      <3>2. QED
        BY <1>2, <2>1, <2>4, <3>1 DEF InspectionFails, Turn
    <2>5. QED
      BY <2>3, <2>4
  <1>3. CASE EnvVarMissing(n)
    <2>1. ~Failed(mock_inspect(n)) /\ ~mock_inspect(n).envvar_present /\ UNCHANGED publications
      BY <1>3 DEF EnvVarMissing
    <2>2. Unlabelled(n) <=> EnvVarExpected(given.config, pendings[n])
      BY <2>1 DEF EnvVarExpected
    <2>3. \A e \in CompanionError :
            Blames(e, n) <=> Unlabelled(n) /\ e = Error("EnvVarMissing", "")
      BY <2>1
    <2>4. QED
      BY <1>1, <1>3, <2>1, <2>2, <2>3 DEF EnvVarMissing, push_error, Turn
  <1>4. CASE DryRun(n)
    <2>1. \A e \in CompanionError : ~Blames(e, n)
      BY <1>4 DEF DryRun
    <2>2. QED
      BY <1>4, <2>1 DEF DryRun, Turn
  <1>5. CASE Publishes(n)
    <2>1. Willing(n) /\ ~Unreachable(n) /\ ~Unlabelled(n)
      BY <1>5 DEF Publishes
    <2>2. CASE Refused(n)
      <3>1. \A e \in CompanionError : Blames(e, n) <=> e = Error("Publishing", "MockError")
        BY <2>1, <2>2
      <3>2. UNCHANGED publications /\ push_error(n, Error("Publishing", "MockError"))
        BY <1>5, <2>2 DEF Publishes, mock_publish
      <3>3. QED
        BY <1>1, <2>2, <3>1, <3>2 DEF push_error, Turn
    <2>3. CASE ~Refused(n)
      <3>1. \A e \in CompanionError : ~Blames(e, n)
        BY <2>1, <2>3
      <3>2. /\ publications' = Append(publications, PublicationOf(n))
            /\ todo' = todo \ {n} /\ UNCHANGED errors
        BY <1>5, <2>1, <2>3 DEF Publishes, mock_publish, PublicationOf
      <3>3. QED
        BY <2>1, <2>3, <3>1, <3>2 DEF Turn
    <2>4. QED
      BY <2>2, <2>3
  <1>6. QED
    BY <1>2, <1>3, <1>4, <1>5

(***************************************************************************)
(* enumerate lists the names of the scope, the explicit ones as such, and  *)
(* has an error exactly if it could not ask.                               *)
(***************************************************************************)
LEMMA EnumerateLists ==
    ASSUME TypeOK, enumerate
    PROVE  /\ Scope \subseteq Names /\ calls' = calls \ {"enumerate"}
           /\ pendings' = [n \in Scope |-> n \in given.explicit]
           /\ todo' = (IF "refresh" \in calls THEN Scope ELSE {})
           /\ Unlisted => /\ Error("Inspection", mock_enumerate.error) \in CompanionError
                          /\ errors' = <<Error("Inspection", mock_enumerate.error)>>
           /\ ~Unlisted => errors' = <<>>
           /\ UNCHANGED <<given, publications, do_continue>>
  <1>1. IsFixture(given)
    BY FixturesAssumption DEF TypeOK
  <1>2. /\ Failed(mock_enumerate) => mock_enumerate.error \in {"FakeError"}
        /\ ~Failed(mock_enumerate) => mock_enumerate.names \subseteq Names
    BY <1>1 DEF IsFixture, mock_enumerate, Failed
  <1>3. Scope \subseteq Names
    BY <1>1, <1>2 DEF Scope, Unlisted, IsFixture
  <1>4. pendings' = [n \in Scope |-> n \in given.explicit]
    BY DEF enumerate, container_index, Scope, Unlisted
  <1>5. todo' = IF "refresh" \in calls THEN Scope ELSE {}
    BY <1>4 DEF enumerate
  <1>6. Unlisted => Error("Inspection", mock_enumerate.error) \in CompanionError
    BY <1>2 DEF Unlisted, Error, CompanionError
  <1>7. /\ Unlisted => errors' = <<Error("Inspection", mock_enumerate.error)>>
        /\ ~Unlisted => errors' = <<>>
    BY DEF enumerate, Unlisted
  <1>8. QED
    BY <1>3, <1>4, <1>5, <1>6, <1>7 DEF enumerate

(***************************************************************************)
(* Every append is of an error or a publication, also for a test that      *)
(* calls refresh_container without enumerate, with flags of its own.       *)
(***************************************************************************)
LEMMA RefreshTypes ==
    ASSUME TypeOK, NEW n \in Names,
           InspectionFails(n) \/ EnvVarMissing(n) \/ DryRun(n) \/ Publishes(n)
    PROVE  /\ errors' \in Seq(CompanionError) /\ publications' \in Seq(Publication)
           /\ todo' \subseteq todo
  <1>1. errors \in Seq(CompanionError) /\ publications \in Seq(Publication)
    BY DEF TypeOK, Publication
  <1>2. /\ Error("EnvVarMissing", "") \in CompanionError
        /\ Error("Publishing", "MockError") \in CompanionError
        /\ \A inner \in {"FakeError", "InspectionNotMocked"} :
                Error("Inspection", inner) \in CompanionError
    BY DEF Error, CompanionError
  <1>3. ASSUME NEW e \in CompanionError, push_error(n, e)
        PROVE  errors' \in Seq(CompanionError) /\ todo' \subseteq todo
    BY <1>1, <1>3, AppendProperties DEF push_error
  <1>4. CASE InspectionFails(n)
    <2>1. Error("Inspection", mock_inspect(n).error) \in CompanionError
      BY <1>2, <1>4, AnswerType DEF InspectionFails
    <2>2. QED
      BY <1>1, <1>3, <1>4, <2>1 DEF InspectionFails
  <1>5. CASE EnvVarMissing(n)
    BY <1>1, <1>2, <1>3, <1>5 DEF EnvVarMissing
  <1>6. CASE DryRun(n)
    BY <1>1, <1>6 DEF DryRun
  <1>7. CASE Publishes(n)
    <2>1. PublicationOf(n) \in Publication
      BY <1>7, AnswerType DEF Publishes
    <2>2. publications' \in {publications, Append(publications, PublicationOf(n))}
      BY <1>7 DEF Publishes, mock_publish, PublicationOf
    <2>3. publications' \in Seq(Publication)
      BY <1>1, <2>1, <2>2, AppendProperties
    <2>4. errors' \in Seq(CompanionError) /\ todo' \subseteq todo
      BY <1>1, <1>2, <1>3, <1>7 DEF Publishes
    <2>5. QED
      BY <2>3, <2>4
  <1>8. QED
    BY <1>4, <1>5, <1>6, <1>7

(***************************************************************************)
(* TypeOK of the bench, whatever calls a test makes.                       *)
(***************************************************************************)
THEOREM BenchTypeCorrect == Spec => []TypeOK
  <1>1. Init => TypeOK
    <2> SUFFICES ASSUME Init PROVE TypeOK
      OBVIOUS
    <2>1. given \in Fixtures /\ IsFixture(given)
      BY FixturesAssumption DEF Init
    <2>2. errors \in Seq(CompanionError) /\ publications \in Seq(Publication)
      BY EmptySeq DEF Init
    <2>3. QED
      BY <2>1, <2>2 DEF Init, TypeOK, IsFixture, Publication
  <1>2. TypeOK /\ [Next]_vars => TypeOK'
    <2> SUFFICES ASSUME TypeOK, [Next]_vars
                 PROVE  TypeOK'
      OBVIOUS
    <2>1. CASE enumerate
      <3>1. errors' \in Seq(CompanionError)
        <4> DEFINE e == Error("Inspection", mock_enumerate.error)
        <4>1. e \in CompanionError => <<e>> \in Seq(CompanionError)
          OBVIOUS
        <4> HIDE DEF e
        <4>2. Unlisted => e \in CompanionError /\ errors' = <<e>>
          BY <2>1, EnumerateLists DEF e
        <4>3. ~Unlisted => errors' = <<>>
          BY <2>1, EnumerateLists
        <4>4. QED
          BY <4>1, <4>2, <4>3, EmptySeq
      <3>2. pendings' = [n \in Scope |-> n \in given.explicit] /\ Scope \subseteq Names
        BY <2>1, EnumerateLists
      <3>3. pendings' \in [Scope -> BOOLEAN] /\ DOMAIN pendings' = Scope
        BY <3>2
      <3>4. todo' \subseteq Scope
        BY <2>1, EnumerateLists
      <3>5. QED
        BY <2>1, <3>1, <3>2, <3>3, <3>4, EnumerateLists DEF TypeOK
    <2>2. CASE refresh_container
      <3>1. PICK n \in todo :
                InspectionFails(n) \/ EnvVarMissing(n) \/ DryRun(n) \/ Publishes(n)
        BY <2>2 DEF refresh_container
      <3>2. n \in Names
        BY DEF TypeOK
      <3>3. /\ errors' \in Seq(CompanionError) /\ publications' \in Seq(Publication)
            /\ todo' \subseteq todo
        BY <3>1, <3>2, RefreshTypes
      <3>4. QED
        BY <2>2, <3>3 DEF refresh_container, TypeOK, Publication
    <2>3. CASE wait
      BY <2>3 DEF wait, TypeOK
    <2>4. CASE UNCHANGED vars
      BY <2>4 DEF vars, TypeOK
    <2>5. QED
      BY <2>1, <2>2, <2>3, <2>4 DEF Next, Finished
  <1>3. QED
    BY <1>1, <1>2, PTL DEF Spec

-----------------------------------------------------------------------------
(* A pass is the sum of its containers *)

(* What has been refreshed of what was listed.                             *)
Refreshed == Scope \ todo

OfEnumeration(e) ==
    IF Unlisted /\ e = Error("Inspection", mock_enumerate.error) THEN 1 ELSE 0

Sums(R) ==
    /\ Len(publications) = Cardinality({n \in R : Accepted(n)})
    /\ \A m \in Scope : Accepted(m) =>
        Times(PublicationOf(m), publications)
            = Cardinality({n \in R : Accepted(n) /\ PublicationOf(n) = PublicationOf(m)})
    /\ \A e \in CompanionError :
        Times(e, errors) = Cardinality({n \in R : Blames(e, n)}) + OfEnumeration(e)

(* The sum is right at every moment, for the containers refreshed so far,  *)
(* each of which is out of todo for good.                                  *)
BenchInv ==
    given.calls = Calls =>
        IF "enumerate" \in calls THEN calls = Calls /\ publications = <<>>
        ELSE /\ Scope \subseteq Names /\ todo \subseteq Scope
             /\ pendings = [n \in Scope |-> n \in given.explicit]
             /\ Sums(Refreshed)

(* Everything that is said of a name by what was given for it.             *)
SameGiven ==
    /\ Scope' = Scope
    /\ \A m : (Accepted(m)' <=> Accepted(m)) /\ PublicationOf(m)' = PublicationOf(m)
    /\ \A e, m : Blames(e, m)' <=> Blames(e, m)
    /\ \A e : OfEnumeration(e)' = OfEnumeration(e)

(***************************************************************************)
(* No step changes what was given, nor anything that is said of it.        *)
(***************************************************************************)
LEMMA GivenStays ==
    ASSUME UNCHANGED given
    PROVE  SameGiven
  <1>1. Scope' = Scope /\ (Unlisted' <=> Unlisted) /\ mock_enumerate' = mock_enumerate
    BY DEF Scope, Unlisted, mock_enumerate
  <1>2. \A m : mock_inspect(m)' = mock_inspect(m)
    BY DEF mock_inspect
  <1>3. \A m : Accepted(m)' <=> Accepted(m)
    BY <1>2 DEF Accepted, Willing, Refused
  <1>4. \A m : PublicationOf(m)' = PublicationOf(m)
    BY <1>2 DEF PublicationOf
  <1>5. \A e, m : Blames(e, m)' <=> Blames(e, m)
    BY <1>2 DEF Blames, Unreachable, Unlabelled, Refused, Willing
  <1>6. \A e : OfEnumeration(e)' = OfEnumeration(e)
    BY <1>1 DEF OfEnumeration
  <1>7. QED
    BY <1>1, <1>3, <1>4, <1>5, <1>6 DEF SameGiven

(***************************************************************************)
(* The turn of one more container adds to the sums exactly its own.        *)
(***************************************************************************)
LEMMA SumsGrow ==
    ASSUME TypeOK, Scope \subseteq Names, NEW n \in Scope, Turn(n), UNCHANGED given,
           NEW R \in SUBSET Scope, n \notin R, Sums(R)
    PROVE  Sums(R \cup {n})'
  <1> DEFINE Q == R \cup {n}
  <1>1. errors \in Seq(CompanionError) /\ publications \in Seq(Publication)
    BY DEF TypeOK, Publication
  <1>2. Len(publications') = Cardinality({m \in Q : Accepted(m)})
    <2> DEFINE T == {m \in R : Accepted(m)}
    <2>1. T \in SUBSET Names /\ n \notin T /\ n \in Names
      OBVIOUS
    <2>2. CASE Accepted(n)
      <3>1. {m \in Q : Accepted(m)} = T \cup {n}
        BY <2>2
      <3>2. PublicationOf(n) \in Publication
        BY <2>2, AnswerType DEF Accepted, Willing
      <3>3. Len(publications') = Len(publications) + 1
        BY <1>1, <2>2, <3>2, AppendProperties DEF Turn
      <3> HIDE DEF T, Q
      <3>4. QED
        BY <2>1, <3>1, <3>3, CountName DEF Sums, T
    <2>3. CASE ~Accepted(n)
      BY <2>3 DEF Turn, Sums
    <2>4. QED
      BY <2>2, <2>3
  <1>3. ASSUME NEW k \in Scope, Accepted(k)
        PROVE  Times(PublicationOf(k), publications')
                 = Cardinality({m \in Q : Accepted(m) /\ PublicationOf(m) = PublicationOf(k)})
    <2> DEFINE x == PublicationOf(k)
               T == {m \in R : Accepted(m) /\ PublicationOf(m) = x}
    <2>1. T \in SUBSET Names /\ n \notin T /\ n \in Names
      OBVIOUS
    <2>2. CASE Accepted(n) /\ PublicationOf(n) = x
      <3>1. {m \in Q : Accepted(m) /\ PublicationOf(m) = x} = T \cup {n}
        BY <2>2
      <3>2. PublicationOf(n) \in Publication
        BY <2>2, AnswerType DEF Accepted, Willing
      <3>3. publications' = Append(publications, PublicationOf(n))
        BY <2>2 DEF Turn
      <3>4. Times(x, publications) = Cardinality(T)
        BY <1>3 DEF Sums
      <3> HIDE DEF T, Q, x
      <3>5. Times(x, publications') = Times(x, publications) + 1
        BY <1>1, <2>2, <3>2, <3>3, TimesAppend
      <3>6. Cardinality(T \cup {n}) = Cardinality(T) + 1
        BY <2>1, CountName
      <3>7. QED
        BY <3>1, <3>4, <3>5, <3>6 DEF x
    <2>3. CASE Accepted(n) /\ PublicationOf(n) # x
      <3>1. {m \in Q : Accepted(m) /\ PublicationOf(m) = x} = T
        BY <2>3
      <3>2. PublicationOf(n) \in Publication
        BY <2>3, AnswerType DEF Accepted, Willing
      <3>3. publications' = Append(publications, PublicationOf(n))
        BY <2>3 DEF Turn
      <3>4. Times(x, publications) = Cardinality(T)
        BY <1>3 DEF Sums
      <3> HIDE DEF T, Q, x
      <3>5. Times(x, publications') = Times(x, publications)
        BY <1>1, <2>3, <3>2, <3>3, TimesAppend
      <3>6. QED
        BY <3>1, <3>4, <3>5 DEF x
    <2>4. CASE ~Accepted(n)
      <3>1. {m \in Q : Accepted(m) /\ PublicationOf(m) = x} = T /\ UNCHANGED publications
        BY <2>4 DEF Turn
      <3>2. QED
        BY <1>3, <3>1 DEF Sums
    <2>5. QED
      BY <2>2, <2>3, <2>4
  <1>4. ASSUME NEW e \in CompanionError
        PROVE  Times(e, errors') = Cardinality({m \in Q : Blames(e, m)}) + OfEnumeration(e)
    <2> DEFINE T == {m \in R : Blames(e, m)}
    <2>1. T \in SUBSET Names /\ n \notin T /\ n \in Names
      OBVIOUS
    <2>2. /\ Times(e, errors) = Cardinality(T) + OfEnumeration(e)
          /\ OfEnumeration(e) \in Nat
      BY DEF Sums, OfEnumeration
    <2>3. CASE Blames(e, n)
      <3>1. {m \in Q : Blames(e, m)} = T \cup {n}
        BY <2>3
      <3>2. errors' = Append(errors, e)
        BY <2>3 DEF Turn
      <3> HIDE DEF T, Q
      <3>3. Times(e, errors') = Times(e, errors) + 1
        BY <1>1, <3>2, TimesAppend
      <3>4. Cardinality(T) \in Nat /\ Cardinality(T \cup {n}) = Cardinality(T) + 1
        BY <2>1, CountName
      <3>5. Cardinality({m \in Q : Blames(e, m)}) = Cardinality(T) + 1
        BY <3>1, <3>4
      <3>6. QED
        BY <2>2, <3>3, <3>4, <3>5
    <2>4. CASE ~Blames(e, n)
      <3>1. {m \in Q : Blames(e, m)} = T
        BY <2>4
      <3>2. Times(e, errors') = Times(e, errors)
        <4>1. CASE UNCHANGED errors
          BY <4>1
        <4>2. CASE \E f \in CompanionError : f # e /\ errors' = Append(errors, f)
          BY <1>1, <4>2, TimesAppend
        <4>3. QED
          BY <2>4, <4>1, <4>2 DEF Turn
      <3> HIDE DEF T, Q
      <3>3. QED
        BY <2>2, <3>1, <3>2
    <2>5. QED
      BY <2>3, <2>4
  <1>5. QED
    <2>1. Q' = Q /\ given' = given
      OBVIOUS
    <2>2. SameGiven
      BY <2>1, GivenStays
    <2>3. {m \in Q : Accepted(m)}' = {m \in Q : Accepted(m)}
      BY <2>1, <2>2 DEF SameGiven
    <2>4. \A k : {m \in Q : Accepted(m) /\ PublicationOf(m) = PublicationOf(k)}'
                   = {m \in Q : Accepted(m) /\ PublicationOf(m) = PublicationOf(k)}
      BY <2>1, <2>2 DEF SameGiven
    <2>5. \A e : {m \in Q : Blames(e, m)}' = {m \in Q : Blames(e, m)}
      BY <2>1, <2>2 DEF SameGiven
    <2>6. QED
      BY <1>2, <1>3, <1>4, <2>2, <2>3, <2>4, <2>5 DEF Sums, SameGiven

(***************************************************************************)
(* Where nothing has been refreshed there is nothing but, at most, the     *)
(* error of the enumeration.                                               *)
(***************************************************************************)
LEMMA SumsStart ==
    ASSUME TypeOK, enumerate, publications = <<>>
    PROVE  Sums({})'
  <1>1. SameGiven /\ (Unlisted' <=> Unlisted) /\ publications' = <<>>
    <2>1. UNCHANGED <<given, publications>>
      BY EnumerateLists
    <2>2. QED
      BY <2>1, GivenStays DEF Unlisted, mock_enumerate
  <1>2. Cardinality({}) = 0
    BY FS_EmptySet
  <1>3. \A x : Times(x, <<>>) = 0
    BY <1>2, EmptySeq DEF Times
  <1>4. ASSUME NEW e \in CompanionError
        PROVE  Times(e, errors') = OfEnumeration(e)
    <2> DEFINE f == Error("Inspection", mock_enumerate.error)
    <2>1. CASE Unlisted
      <3>1. f \in CompanionError /\ errors' = <<f>>
        BY <2>1, EnumerateLists
      <3> HIDE DEF f
      <3>2. <<>> \in Seq(CompanionError) /\ <<f>> = Append(<<>>, f)
        BY <3>1, EmptySeq
      <3>3. Times(e, Append(<<>>, f)) = Times(e, <<>>) + (IF e = f THEN 1 ELSE 0)
        BY <3>1, <3>2, TimesAppend
      <3>4. Times(e, errors') = (IF e = f THEN 1 ELSE 0)
        BY <1>3, <3>1, <3>2, <3>3
      <3>5. QED
        BY <2>1, <3>4 DEF OfEnumeration, f
    <2>2. CASE ~Unlisted
      <3>1. errors' = <<>>
        BY <2>2, EnumerateLists
      <3>2. QED
        BY <1>3, <2>2, <3>1 DEF OfEnumeration
    <2>3. QED
      BY <2>1, <2>2
  <1>5. Len(publications') = 0
    BY <1>1, EmptySeq
  <1>6. \A e : OfEnumeration(e) \in Nat
    BY DEF OfEnumeration
  <1>7. QED
    BY <1>1, <1>2, <1>3, <1>4, <1>5, <1>6 DEF Sums, SameGiven

(***************************************************************************)
(* BenchInv is preserved by every call.                                    *)
(***************************************************************************)
LEMMA BenchStep == TypeOK /\ BenchInv /\ [Next]_vars => BenchInv'
  <1> SUFFICES ASSUME TypeOK, BenchInv, [Next]_vars, given'.calls = Calls
               PROVE  IF "enumerate" \in calls' THEN calls' = Calls /\ publications' = <<>>
                      ELSE /\ Scope' \subseteq Names /\ todo' \subseteq Scope'
                           /\ pendings' = [n \in Scope' |-> n \in given'.explicit]
                           /\ Sums(Refreshed)'
    BY DEF BenchInv
  <1>1. given' = given
    BY DEF Next, vars, enumerate, refresh_container, wait, Finished
  <1>2. SameGiven /\ Scope' = Scope
    BY <1>1, GivenStays DEF SameGiven
  <1>3. CASE enumerate
    <2>1. calls = Calls /\ publications = <<>> /\ "refresh" \in calls
      BY <1>1, <1>3 DEF BenchInv, enumerate, Calls
    <2>2. todo' = Scope /\ "enumerate" \notin calls'
      BY <1>3, <2>1, EnumerateLists
    <2>3. Refreshed' = {}
      BY <1>2, <2>2 DEF Refreshed
    <2>4. Sums({})'
      BY <1>3, <2>1, SumsStart
    <2>5. QED
      BY <1>1, <1>2, <1>3, <2>2, <2>3, <2>4, EnumerateLists
  <1>4. CASE refresh_container
    <2>1. PICK n \in todo :
              InspectionFails(n) \/ EnvVarMissing(n) \/ DryRun(n) \/ Publishes(n)
      BY <1>4 DEF refresh_container
    <2>2. /\ "enumerate" \notin calls /\ "enumerate" \notin calls'
          /\ calls' = calls /\ pendings' = pendings
      BY <1>4 DEF refresh_container
    <2>3. /\ Scope \subseteq Names /\ todo \subseteq Scope
          /\ pendings = [m \in Scope |-> m \in given.explicit] /\ Sums(Refreshed)
      BY <1>1, <2>2 DEF BenchInv
    <2>4. n \in Scope /\ n \in Names /\ pendings[n] = (n \in given.explicit)
      BY <2>3
    <2>5. Turn(n)
      BY <2>1, <2>4, RefreshIsTurn
    <2>6. todo' = todo \ {n}
      BY <2>5 DEF Turn
    <2>7. Refreshed' = Refreshed \cup {n} /\ n \notin Refreshed /\ Refreshed \subseteq Scope
      BY <1>2, <2>1, <2>4, <2>6 DEF Refreshed
    <2>8. Sums(Refreshed \cup {n})'
      BY <1>1, <2>3, <2>4, <2>5, <2>7, SumsGrow
    <2>9. QED
      BY <1>1, <1>2, <2>2, <2>3, <2>6, <2>7, <2>8
  <1>5. CASE wait \/ UNCHANGED vars
    <2>1. UNCHANGED <<given, pendings, todo, errors, publications>>
      BY <1>5 DEF wait, vars
    <2>2. "enumerate" \in calls' => "enumerate" \in calls /\ calls' = calls
      BY <1>5 DEF wait, vars
    <2>3. "enumerate" \in calls => "enumerate" \in calls'
      BY <1>5 DEF wait, vars
    <2>4. Refreshed' = Refreshed
      BY <1>2, <2>1 DEF Refreshed
    <2>5. Sums(Refreshed) => Sums(Refreshed)'
      BY <1>2, <2>1, <2>4 DEF Sums, SameGiven
    <2>6. QED
      BY <1>1, <1>2, <2>1, <2>2, <2>3, <2>5 DEF BenchInv
  <1>6. QED
    BY <1>3, <1>4, <1>5 DEF Next, Finished

(***************************************************************************)
(* PassIsSumOfItsContainers for any number of containers and any answers   *)
(* of the doubles: no container's outcome depends on the order in which    *)
(* the HashMap yields them, nor on what happens to the others.             *)
(***************************************************************************)
THEOREM PassSumsUp == Spec => []PassIsSumOfItsContainers
  <1>1. Init => BenchInv
    BY DEF Init, BenchInv, Calls
  <1>2. TypeOK /\ BenchInv => PassIsSumOfItsContainers
    <2> SUFFICES ASSUME TypeOK, BenchInv, Done, given.calls = Calls
                 PROVE  LET accepted == {n \in Scope : Accepted(n)}
                        IN  /\ Len(publications) = Cardinality(accepted)
                            /\ \A n \in accepted :
                                Times(PublicationOf(n), publications) =
                                    Cardinality({m \in accepted :
                                                    PublicationOf(m) = PublicationOf(n)})
                            /\ \A e \in CompanionError :
                                Times(e, errors) =
                                    Cardinality({n \in Scope : Blames(e, n)})
                                    + OfEnumeration(e)
      BY DEF PassIsSumOfItsContainers, OfEnumeration
    <2> DEFINE accepted == {n \in Scope : Accepted(n)}
    <2>1. "enumerate" \notin calls /\ todo = {}
      BY DEF Done
    <2>2. Sums(Scope)
      BY <2>1 DEF BenchInv, Refreshed
    <2>3. ASSUME NEW n \in accepted
          PROVE  Times(PublicationOf(n), publications) =
                    Cardinality({m \in accepted : PublicationOf(m) = PublicationOf(n)})
      <3>1. {m \in accepted : PublicationOf(m) = PublicationOf(n)}
              = {m \in Scope : Accepted(m) /\ PublicationOf(m) = PublicationOf(n)}
        OBVIOUS
      <3>2. QED
        BY <2>2, <3>1 DEF Sums
    <2>4. QED
      BY <2>2, <2>3 DEF Sums
  <1>3. QED
    BY <1>1, <1>2, BenchTypeCorrect, BenchStep, PTL DEF Spec

=============================================================================
