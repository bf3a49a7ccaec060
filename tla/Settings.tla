------------------------------ MODULE Settings ------------------------------
(***************************************************************************)
(* Settings of the application by code: settings/settings.service.ts and   *)
(* settings/settings.seeder.ts.                                            *)
(*                                                                         *)
(* Every instance of the application seeds the collection when it starts,  *)
(* before it serves requests: the singleton of an earlier version, a       *)
(* document without a code, becomes `supported-countries`, and the codes   *)
(* the application needs are created with defaults.  Each awaited call of  *)
(* seed() is an action; an instance may die between any two and start      *)
(* over, and instances overlap as they do in a rolling restart.            *)
(*                                                                         *)
(* Requests through the API stop at each await as well.  The value of a    *)
(* request is named by the request; X_Y is a mutation of X.                *)
(***************************************************************************)
EXTENDS Naturals

CONSTANTS Instances,   \* processes of the application
          Requests,    \* API requests that create or update a setting
          Codes,       \* codes of settings
          Countries,   \* SUPPORTED_COUNTRIES_CODE
          Taxonomy,    \* PRODUCT_TAXONOMY_CODE
          MaxCrashes,  \* how often instances die
          Default,     \* the seed of a code
          Legacy,      \* the countries of the earlier version's singleton
          Null,        \* a singleton whose countries are null
          None         \* no document

ASSUME SettingsAssumption ==
  /\ Countries \in Codes /\ Taxonomy \in Codes /\ Countries # Taxonomy
  /\ MaxCrashes \in Nat
  /\ Default # Legacy
  /\ {None, Null, Default, Legacy} \cap Requests = {}
  /\ None \notin {Null, Default, Legacy} /\ Null # Legacy

Values == Requests \cup {Default, Legacy}
Singletons == {None, Null, Legacy}

VARIABLES singleton,  \* MongoDB: the value of the document without a code, or None
          setting,    \* MongoDB: the value of each code, None when there is no document
          pc,         \* where each instance is
          found,      \* the singleton's value each instance loaded
          at,         \* where each request is
          target,     \* the code each request names
          server,     \* the instance that serves each request
          crashes,    \* how often an instance has died
          inherited,  \* history: the singleton's value at the beginning
          written     \* history: the last value a request wrote to each code

vars == <<singleton, setting, pc, found, at, target, server, crashes, inherited, written>>
requests == <<at, target, server>>
history == <<inherited, written>>

Goto(i, label) == pc' = [pc EXCEPT ![i] = label]

\* updateOne with $setOnInsert and upsert: an existing document is left alone.
Ensured_Overwrites(code, value) == [setting EXCEPT ![code] = value]
Ensured(code, value) == [setting EXCEPT ![code] = IF @ = None THEN value ELSE @]

-----------------------------------------------------------------------------
Start(i) ==
  /\ pc[i] = "down"
  /\ Goto(i, "find")
  /\ UNCHANGED <<singleton, setting, found, requests, crashes, history>>

FindLegacy_DeletesFirst(i) ==
  /\ pc[i] = "find"
  /\ found' = [found EXCEPT ![i] = singleton]
  /\ Goto(i, IF singleton = None THEN "countries" ELSE "delete")
  /\ UNCHANGED <<singleton, setting, requests, crashes, history>>

\* seed: findOne of the singleton
FindLegacy(i) ==
  /\ pc[i] = "find"
  /\ found' = [found EXCEPT ![i] = singleton]
  /\ Goto(i, IF singleton = None THEN "countries" ELSE "migrate")
  /\ UNCHANGED <<singleton, setting, requests, crashes, history>>

\* ... ensureSetting with its countries, or the default if they are null
Migrate(i) ==
  /\ pc[i] = "migrate"
  /\ setting' = Ensured(Countries, IF found[i] = Null THEN Default ELSE found[i])
  /\ Goto(i, "delete")
  /\ UNCHANGED <<singleton, found, requests, crashes, history>>

DeleteLegacy_Returns(i) ==
  /\ pc[i] = "delete"
  /\ singleton' = None
  /\ Goto(i, "ready")
  /\ UNCHANGED <<setting, found, requests, crashes, history>>

\* ... and only then delete it
DeleteLegacy(i) ==
  /\ pc[i] = "delete"
  /\ singleton' = None
  /\ Goto(i, "countries")
  /\ UNCHANGED <<setting, found, requests, crashes, history>>

EnsureCountries(i) ==
  /\ pc[i] = "countries"
  /\ setting' = Ensured(Countries, Default)
  /\ Goto(i, "taxonomy")
  /\ UNCHANGED <<singleton, found, requests, crashes, history>>

\* onApplicationBootstrap returns, and the instance listens.
EnsureTaxonomy(i) ==
  /\ pc[i] = "taxonomy"
  /\ setting' = Ensured(Taxonomy, Default)
  /\ Goto(i, "ready")
  /\ UNCHANGED <<singleton, found, requests, crashes, history>>

\* The process dies, or an await of seed() throws and the start-up fails; the
\* requests it served die with it.
Crash(i) ==
  /\ pc[i] # "down"
  /\ crashes < MaxCrashes
  /\ crashes' = crashes + 1
  /\ Goto(i, "down")
  /\ at' = [r \in Requests |-> IF at[r] # "idle" /\ server[r] = i THEN "done" ELSE at[r]]
  /\ UNCHANGED <<singleton, setting, found, target, server, history>>

-----------------------------------------------------------------------------
\* create: a code that exists is refused.
BeginCreate(r, i, code) ==
  /\ at[r] = "idle"
  /\ pc[i] = "ready"
  /\ setting[code] = None
  /\ at' = [at EXCEPT ![r] = "insert"]
  /\ target' = [target EXCEPT ![r] = code]
  /\ server' = [server EXCEPT ![r] = i]
  /\ UNCHANGED <<singleton, setting, pc, found, crashes, history>>

\* The unique index on `code`.
Insertable(code) == setting[code] = None

\* ... then insert; a duplicate throws.
Insert(r) ==
  /\ at[r] = "insert"
  /\ at' = [at EXCEPT ![r] = "done"]
  /\ IF Insertable(target[r])
     THEN /\ setting' = [setting EXCEPT ![target[r]] = r]
          /\ written' = [written EXCEPT ![target[r]] = r]
     ELSE UNCHANGED <<setting, written>>
  /\ UNCHANGED <<singleton, pc, found, target, server, crashes, inherited>>

\* update: one findOneAndUpdate; a code that does not exist is refused.
Update(r, i, code) ==
  /\ at[r] = "idle"
  /\ pc[i] = "ready"
  /\ setting[code] # None
  /\ at' = [at EXCEPT ![r] = "done"]
  /\ setting' = [setting EXCEPT ![code] = r]
  /\ written' = [written EXCEPT ![code] = r]
  /\ UNCHANGED <<singleton, pc, found, target, server, crashes, inherited>>

-----------------------------------------------------------------------------
\* A new installation, or one that an earlier version has left behind.
Init ==
  /\ singleton \in Singletons
  /\ inherited = singleton
  /\ setting = [c \in Codes |-> None]
  /\ written = [c \in Codes |-> None]
  /\ pc = [i \in Instances |-> "down"]
  /\ found = [i \in Instances |-> None]
  /\ at = [r \in Requests |-> "idle"]
  /\ target = [r \in Requests |-> None]
  /\ server = [r \in Requests |-> None]
  /\ crashes = 0

Seed(i) ==
  \/ Start(i) \/ FindLegacy(i) \/ Migrate(i) \/ DeleteLegacy(i)
  \/ EnsureCountries(i) \/ EnsureTaxonomy(i)

Next ==
  \/ \E i \in Instances : Seed(i) \/ Crash(i)
  \/ \E r \in Requests, i \in Instances, code \in Codes : BeginCreate(r, i, code) \/ Update(r, i, code)
  \/ \E r \in Requests : Insert(r)

Spec == Init /\ [][Next]_vars

-----------------------------------------------------------------------------
\* The variables have the types of the schema.
TypeOK ==
  /\ singleton \in Singletons /\ inherited \in Singletons
  /\ setting \in [Codes -> Values \cup {None}] /\ written \in [Codes -> Requests \cup {None}]
  /\ pc \in [Instances -> {"down", "find", "migrate", "delete", "countries", "taxonomy", "ready"}]
  /\ found \in [Instances -> Singletons]
  /\ at \in [Requests -> {"idle", "insert", "done"}]
  /\ target \in [Requests -> Codes \cup {None}]
  /\ server \in [Requests -> Instances \cup {None}]
  /\ crashes \in 0 .. MaxCrashes

\* "Migra el singleton viejo": the countries of the earlier version are not lost
\* at any crash or overlap of seedings.  Until somebody changes them they are in
\* one of the two documents.
LegacyCountriesSurvive ==
  inherited = Legacy /\ written[Countries] = None
    => singleton = inherited \/ setting[Countries] = inherited

\* "... si no existen": whatever starts and restarts, the value of a code that a
\* request has written is the last one that a request wrote.
SeedingSparesWrittenValues ==
  \A code \in Codes : written[code] # None => setting[code] = written[code]

\* GET /settings/:code never misses a code that the application needs, and no
\* instance that serves requests leaves the old singleton behind.
ServedSettingsExist ==
  (\E i \in Instances : pc[i] = "ready")
    => setting[Countries] # None /\ setting[Taxonomy] # None /\ singleton = None
=============================================================================
