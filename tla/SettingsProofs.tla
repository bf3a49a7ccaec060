--------------------------- MODULE SettingsProofs ---------------------------
(***************************************************************************)
(* The properties of Settings, for any number of instances, requests and   *)
(* codes.                                                                  *)
(***************************************************************************)
EXTENDS Settings, TLAPS

\* What an instance loaded is what the earlier version left, and the singleton
\* is that or gone.
Inheritance ==
  /\ singleton \in {None, inherited}
  /\ \A i \in Instances : found[i] \in {None, inherited}
  /\ \A i \in Instances : pc[i] = "migrate" => found[i] # None

\* How far an instance has come shows in the database; what is there stays.
Progress ==
  /\ \A i \in Instances : pc[i] = "delete" => setting[Countries] # None
  /\ \A i \in Instances : pc[i] \in {"countries", "taxonomy", "ready"} => singleton = None
  /\ \A i \in Instances : pc[i] \in {"taxonomy", "ready"} => setting[Countries] # None
  /\ \A i \in Instances : pc[i] = "ready" => setting[Taxonomy] # None
  /\ \A r \in Requests : at[r] = "insert" => target[r] \in Codes

\* The singleton goes only after its countries have a code, and the countries
\* under that code are the inherited ones as long as nobody has written others.
Migrated ==
  inherited = Legacy =>
    /\ singleton = None => setting[Countries] # None
    /\ setting[Countries] # None /\ written[Countries] = None => setting[Countries] = Legacy

IInv == TypeOK /\ Inheritance /\ Progress /\ Migrated /\ SeedingSparesWrittenValues

-----------------------------------------------------------------------------
\* Init satisfies the inductive invariant.
THEOREM InitIInv == Init => IInv
BY SettingsAssumption DEF Init, IInv, TypeOK, Inheritance, Progress, Migrated,
   SeedingSparesWrittenValues, Values, Singletons

\* Ensuring a code leaves every document that exists as it is.
LEMMA EnsuredKeeps ==
  ASSUME setting \in [Codes -> Values \cup {None}],
         NEW code \in Codes, NEW value \in Values
  PROVE  /\ Ensured(code, value) \in [Codes -> Values \cup {None}]
         /\ \A c \in Codes : setting[c] # None => Ensured(code, value)[c] = setting[c]
         /\ setting[code] = None => Ensured(code, value)[code] = value
         /\ Ensured(code, value)[code] # None
         /\ \A c \in Codes : c # code => Ensured(code, value)[c] = setting[c]
BY SettingsAssumption DEF Ensured, Values

\* No step changes the invariant: one step of the proof for each action.
THEOREM NextIInv == IInv /\ [Next]_vars => IInv'
<1> SUFFICES ASSUME IInv, [Next]_vars PROVE IInv'
    OBVIOUS
<1> USE SettingsAssumption DEF IInv
<1>1. ASSUME NEW i \in Instances, Start(i) PROVE IInv'
    BY <1>1 DEF Start, Goto, requests, history, TypeOK, Inheritance, Progress, Migrated, SeedingSparesWrittenValues
<1>2. ASSUME NEW i \in Instances, FindLegacy(i) PROVE IInv'
    BY <1>2 DEF FindLegacy, Goto, requests, history, TypeOK, Inheritance, Progress, Migrated, SeedingSparesWrittenValues
<1>3. ASSUME NEW i \in Instances, Migrate(i) PROVE IInv'
  <2> DEFINE value == IF found[i] = Null THEN Default ELSE found[i]
  <2>1. value \in Values /\ (inherited = Legacy => value = Legacy)
      BY <1>3 DEF Migrate, TypeOK, Inheritance, Values, Singletons
  <2>2. /\ setting' = Ensured(Countries, value)
        /\ pc' = [pc EXCEPT ![i] = "delete"]
        /\ UNCHANGED <<singleton, found, at, target, server, crashes, inherited, written>>
        /\ pc[i] = "migrate"
      BY <1>3 DEF Migrate, Goto, requests, history
  <2>3. /\ setting' \in [Codes -> Values \cup {None}]
        /\ \A c \in Codes : setting[c] # None => setting'[c] = setting[c]
        /\ setting[Countries] = None => setting'[Countries] = value
        /\ setting'[Countries] # None
      BY <2>1, <2>2, EnsuredKeeps DEF TypeOK
  <2>4. TypeOK'
      BY <2>2, <2>3 DEF TypeOK
  <2>5. Inheritance'
      BY <2>2 DEF Inheritance, TypeOK
  <2>6. Progress'
      BY <2>2, <2>3 DEF Progress, TypeOK
  <2>7. Migrated'
      BY <2>1, <2>2, <2>3 DEF Migrated
  <2>8. SeedingSparesWrittenValues'
      BY <2>2, <2>3 DEF SeedingSparesWrittenValues, TypeOK
  <2> QED
      BY <2>4, <2>5, <2>6, <2>7, <2>8
<1>4. ASSUME NEW i \in Instances, DeleteLegacy(i) PROVE IInv'
    BY <1>4 DEF DeleteLegacy, Goto, requests, history, TypeOK, Inheritance, Progress, Migrated, SeedingSparesWrittenValues, Singletons
<1>5. ASSUME NEW i \in Instances, EnsureCountries(i) PROVE IInv'
  <2>1. /\ setting' = Ensured(Countries, Default)
        /\ pc' = [pc EXCEPT ![i] = "taxonomy"]
        /\ UNCHANGED <<singleton, found, at, target, server, crashes, inherited, written>>
        /\ pc[i] = "countries"
      BY <1>5 DEF EnsureCountries, Goto, requests, history
  <2>2. /\ setting' \in [Codes -> Values \cup {None}]
        /\ \A c \in Codes : setting[c] # None => setting'[c] = setting[c]
        /\ setting'[Countries] # None
      BY <2>1, EnsuredKeeps DEF TypeOK, Values
  <2>3. TypeOK'
      BY <2>1, <2>2 DEF TypeOK
  <2>4. Inheritance'
      BY <2>1 DEF Inheritance, TypeOK
  <2>5. Progress'
      BY <2>1, <2>2 DEF Progress, TypeOK
  <2>6. Migrated'
    \* no singleton is left, so the code had its countries before
    <3>1. singleton = None
        BY <2>1 DEF Progress
    <3> QED
        BY <3>1, <2>1, <2>2 DEF Migrated
  <2>7. SeedingSparesWrittenValues'
      BY <2>1, <2>2 DEF SeedingSparesWrittenValues, TypeOK
  <2> QED
      BY <2>3, <2>4, <2>5, <2>6, <2>7
<1>6. ASSUME NEW i \in Instances, EnsureTaxonomy(i) PROVE IInv'
  <2>1. /\ setting' = Ensured(Taxonomy, Default)
        /\ pc' = [pc EXCEPT ![i] = "ready"]
        /\ UNCHANGED <<singleton, found, at, target, server, crashes, inherited, written>>
        /\ pc[i] = "taxonomy"
      BY <1>6 DEF EnsureTaxonomy, Goto, requests, history
  <2>2. /\ setting' \in [Codes -> Values \cup {None}]
        /\ \A c \in Codes : setting[c] # None => setting'[c] = setting[c]
        /\ setting'[Taxonomy] # None
        /\ setting'[Countries] = setting[Countries]
      BY <2>1, EnsuredKeeps DEF TypeOK, Values
  <2>3. TypeOK'
      BY <2>1, <2>2 DEF TypeOK
  <2>4. Inheritance'
      BY <2>1 DEF Inheritance, TypeOK
  <2>5. Progress'
      BY <2>1, <2>2 DEF Progress, TypeOK
  <2>6. Migrated'
      BY <2>1, <2>2 DEF Migrated
  <2>7. SeedingSparesWrittenValues'
      BY <2>1, <2>2 DEF SeedingSparesWrittenValues, TypeOK
  <2> QED
      BY <2>3, <2>4, <2>5, <2>6, <2>7
<1>7. ASSUME NEW i \in Instances, Crash(i) PROVE IInv'
    BY <1>7 DEF Crash, Goto, history, TypeOK, Inheritance, Progress, Migrated, SeedingSparesWrittenValues
<1>8. ASSUME NEW r \in Requests, NEW i \in Instances, NEW code \in Codes, BeginCreate(r, i, code) PROVE IInv'
    BY <1>8 DEF BeginCreate, history, TypeOK, Inheritance, Progress, Migrated, SeedingSparesWrittenValues
<1>9. ASSUME NEW r \in Requests, Insert(r) PROVE IInv'
  <2>1. target[r] \in Codes /\ r # None
      BY <1>9 DEF Insert, Progress
  <2> QED
      BY <1>9, <2>1 DEF Insert, Insertable, TypeOK, Inheritance, Progress, Migrated, SeedingSparesWrittenValues, Values
<1>10. ASSUME NEW r \in Requests, NEW i \in Instances, NEW code \in Codes, Update(r, i, code) PROVE IInv'
    BY <1>10 DEF Update, TypeOK, Inheritance, Progress, Migrated, SeedingSparesWrittenValues, Values
<1>11. CASE UNCHANGED vars
    BY <1>11 DEF vars, TypeOK, Inheritance, Progress, Migrated, SeedingSparesWrittenValues
<1> QED
    BY <1>1, <1>2, <1>3, <1>4, <1>5, <1>6, <1>7, <1>8, <1>9, <1>10, <1>11 DEF Next, Seed

\* The inductive invariant is an invariant of the specification.
THEOREM SpecIInv == Spec => []IInv
BY InitIInv, NextIInv, PTL DEF Spec

\* The countries of the earlier version are in one of the two documents until a
\* request writes others, at any crash and overlap of seedings.
THEOREM LegacyCountriesSurviveAlways == Spec => []LegacyCountriesSurvive
<1>1. IInv => LegacyCountriesSurvive
    BY DEF IInv, Inheritance, Migrated, LegacyCountriesSurvive
<1> QED
    BY <1>1, SpecIInv, PTL

\* No start and no restart changes a value that a request has written.
THEOREM SeedingSparesWrittenValuesAlways == Spec => []SeedingSparesWrittenValues
<1>1. IInv => SeedingSparesWrittenValues
    BY DEF IInv
<1> QED
    BY <1>1, SpecIInv, PTL

\* An instance serves requests only when the codes exist and the singleton is gone.
THEOREM ServedSettingsExistAlways == Spec => []ServedSettingsExist
<1>1. IInv => ServedSettingsExist
    BY DEF IInv, Progress, ServedSettingsExist
<1> QED
    BY <1>1, SpecIInv, PTL
=============================================================================
