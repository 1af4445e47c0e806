-------------------------- MODULE ReferenceDataProofs --------------------------
(* What holds of ReferenceData, and of Startup in it, for every number of workers,  *)
(* migrators, uploads, files, fields and migrations.                                *)
EXTENDS ReferenceData, TLAPS

-----------------------------------------------------------------------------
(* Types *)

LEMMA ReleasedType ==
    ASSUME NEW p, lock \in [Keys -> Processes \cup {None}]
    PROVE  Released(p) \in [Keys -> Processes \cup {None}]
  BY DEF Released

LEMMA InheritType ==
    ASSUME NEW fields
    PROVE  Inherit(fields) \in Rows
  BY DEF Inherit, RowOf, Rows, Origins

LEMMA InitType == Init => TypeOK
<1> SUFFICES ASSUME Init PROVE TypeOK
  OBVIOUS
<1>1. StartupTypeOK
  BY StartupAssumption
     DEF Init, StartupInit, StartupTypeOK, Stages, Blocked, Keys, Processes
<1>2. row \in Rows \cup {None}
  BY InheritType DEF Init
<1> QED
  BY <1>1, <1>2 DEF Init, TypeOK

LEMMA RowTypes ==
    ASSUME TypeOK, NEW old \in Rows, NEW new \in Rows, row \in Rows
    PROVE  Updated(old, new) \in Rows
  BY DEF Updated, Rows

LEMMA MeasuredType ==
    ASSUME NEW old \in Rows, NEW c \in Contents
    PROVE  Measured(old, c) \in Rows
  BY DEF Measured, Rows, Origins

LEMMA BundledType == Bundled \in Rows
  BY DEF Bundled, RowOf, Rows, Origins

\* A step of the startup of a process leaves its variables well typed.
LEMMA StartupStepType ==
    ASSUME StartupTypeOK,
           \/ \E w \in Workers : Start(w) \/ Proceed(w) \/ LockSeed(w) \/ Die(w)
           \/ \E w \in Workers, taken \in BOOLEAN : EndSeed(w, taken)
           \/ \E m \in Migrators : Migrate(m) \/ ProceedMigrating(m) \/ Die(m)
    PROVE  StartupTypeOK'
<1> USE StartupAssumption, ReleasedType
       DEF StartupTypeOK, Processes, Stages, Blocked, Keys, Goto, HoldStartupLock
<1>1. CASE \E w \in Workers : Start(w) \/ Inspect(w) \/ LockSchema(w) \/ CreateAll(w)
  <2>1. CASE \E w \in Workers : Start(w) \/ Inspect(w)
    BY <2>1 DEF Start, Inspect
  <2>2. CASE \E w \in Workers : LockSchema(w)
    BY <2>2 DEF LockSchema
  <2>3. CASE \E w \in Workers : CreateAll(w)
    BY <2>3 DEF CreateAll
  <2> QED
    BY <1>1, <2>1, <2>2, <2>3
<1>2. CASE \E w \in Workers : Poll(w) \/ EndSetup(w) \/ LockSeed(w)
  <2>1. CASE \E w \in Workers : Poll(w)
    BY <2>1 DEF Poll
  <2>2. CASE \E w \in Workers : EndSetup(w) \/ LockSeed(w)
    BY <2>2 DEF EndSetup, LockSeed
  <2> QED
    BY <1>2, <2>1, <2>2
<1>3. CASE \E w \in Workers : BeginIndex(w)
  <2>1. Snapshots \subseteq Processes \X Blocked
    BY DEF Snapshots
  <2> QED
    BY <1>3, <2>1 DEF BeginIndex
<1>4. CASE \E w \in Workers : Record(w)
  <2>1. PICK w \in Workers : Record(w)
    BY <1>4
  <2>2. version[w] < Migrations => version[w] + 1 \in 0 .. Migrations
    OBVIOUS
  <2> QED
    BY <2>1, <2>2 DEF Record
<1>5. CASE \E w \in Workers, taken \in BOOLEAN : EndSeed(w, taken)
  BY <1>5 DEF EndSeed
<1>6. CASE \E m \in Migrators : Migrate(m) \/ LockUpgrade(m) \/ Upgrade(m)
  <2>1. CASE \E m \in Migrators : Migrate(m)
    BY <2>1 DEF Migrate
  <2>2. CASE \E m \in Migrators : LockUpgrade(m)
    BY <2>2 DEF LockUpgrade
  <2>3. CASE \E m \in Migrators : Upgrade(m)
    BY <2>3 DEF Upgrade
  <2> QED
    BY <1>6, <2>1, <2>2, <2>3
<1>7. CASE \E p \in Processes : Die(p)
  BY <1>7 DEF Die
<1> QED
  BY <1>1, <1>2, <1>3, <1>4, <1>5, <1>6, <1>7 DEF Proceed, ProceedMigrating

-----------------------------------------------------------------------------
(* What makes check-then-write safe *)

\* Whoever is between a check and its write holds the lock that covers it.
LockInv ==
    /\ \A p \in Processes : stage[p] \in {"create", "seed", "upgrade"} => lock["startup"] = p
    /\ \A w \in Workers : stage[w] \in {"setup", "index"} => lock["setup"] = w

\* Either the app or alembic builds the schema, and only its builders run.
RoleInv ==
    /\ owner = "alembic" => schema # "created"
    /\ \A w \in Workers : /\ stage[w] \notin {"lock_upgrade", "upgrade", "migrated"}
                          /\ stage[w] = "create" \/ stage[w] = "lock_schema" => owner = "app"
    /\ \A m \in Migrators : /\ stage[m] \in {"down", "lock_upgrade", "upgrade", "migrated"}
                            /\ stage[m] # "down" => owner = "alembic"

\* What was found still stands when it is acted on.
FoundInv ==
    /\ \A w \in Workers : stage[w] = "create" => missing[w] = (schema = "absent")
    /\ \A m \in Migrators : stage[m] = "upgrade" => missing[m] = (schema # "migrated")
    /\ \A w \in Workers : stage[w] \in {"setup", "index"} => version[w] = recorded

StartupInv == LockInv /\ RoleInv /\ FoundInv /\ NobodyCollides

LEMMA StartupInitInv == StartupInit => StartupInv
  BY DEF StartupInit, StartupInv, LockInv, RoleInv, FoundInv, NobodyCollides, Processes

\* Every step of the startup keeps it, provided that the seed meets no taken key.
LEMMA StartupStepInv ==
    ASSUME StartupTypeOK, StartupInv,
           \/ \E w \in Workers : Start(w) \/ Proceed(w) \/ LockSeed(w) \/ Die(w) \/ EndSeed(w, FALSE)
           \/ \E m \in Migrators : Migrate(m) \/ ProceedMigrating(m) \/ Die(m)
    PROVE  StartupInv'
<1> USE StartupAssumption
       DEF StartupTypeOK, StartupInv, LockInv, RoleInv, FoundInv, NobodyCollides, Processes,
           Goto, HoldStartupLock, Released, Keys
<1>1. CASE \E w \in Workers : Start(w)
  BY <1>1 DEF Start
<1>2. CASE \E w \in Workers : Inspect(w)
  BY <1>2 DEF Inspect
<1>3. CASE \E w \in Workers : LockSchema(w)
  BY <1>3 DEF LockSchema
<1>4. CASE \E w \in Workers : CreateAll(w)
  BY <1>4 DEF CreateAll
<1>5. CASE \E w \in Workers : Poll(w)
  BY <1>5 DEF Poll
<1>6. CASE \E w \in Workers : BeginIndex(w)
  BY <1>6 DEF BeginIndex
<1>7. CASE \E w \in Workers : Record(w)
  BY <1>7 DEF Record
<1>8. CASE \E w \in Workers : EndSetup(w)
  BY <1>8 DEF EndSetup
<1>9. CASE \E w \in Workers : LockSeed(w)
  BY <1>9 DEF LockSeed
<1>10. CASE \E w \in Workers : EndSeed(w, FALSE)
  BY <1>10 DEF EndSeed
<1>11. CASE \E m \in Migrators : Migrate(m)
  BY <1>11 DEF Migrate
<1>12. CASE \E m \in Migrators : LockUpgrade(m)
  BY <1>12 DEF LockUpgrade
<1>13. CASE \E m \in Migrators : Upgrade(m)
  BY <1>13 DEF Upgrade
<1>14. CASE \E p \in Processes : Die(p)
  BY <1>14 DEF Die
<1> QED
  BY <1>1, <1>2, <1>3, <1>4, <1>5, <1>6, <1>7, <1>8, <1>9, <1>10, <1>11, <1>12, <1>13, <1>14 DEF Proceed, ProceedMigrating

-----------------------------------------------------------------------------
(* What a session has read, and the row *)

Sessions == Workers \cup Uploads

\* Whoever is about to write has read the row if there was one; a seed that found none
\* can still insert it, since only seeds insert and they exclude each other.
SeedInv ==
    /\ \A a \in Sessions : read[a] # None => row # None
    /\ \A u \in Uploads : req[u] = "write" => read[u] # None
    /\ \A w \in Workers : stage[w] = "seed" /\ read[w] = None => row = None

\* What a release has corrected is not made uncorrect behind a session that has seen it.
EarlierInv ==
    \A a \in Sessions : read[a] # None =>
        \A f \in Fields : row.figure[f] = "earlier" => read[a].figure[f] = "earlier"

\* What a copy of the row attributes to a log was applied from it.
Earned(r) ==
    \A f \in Fields, c \in Contents :
        r.figure[f] = c \/ r.basis[f] = c => logs[c] = "applied" /\ Samples[c][f] >= MinApplySamples

EarnedInv ==
    /\ row # None => Earned(row)
    /\ \A a \in Sessions : read[a] # None => Earned(read[a])

\* Until somebody overwrites what he has not read, every copy explains its own figures.
BasisInv ==
    ~overwritten =>
        /\ row # None => row.figure = row.basis
        /\ \A a \in Sessions : read[a] # None => read[a].figure = read[a].basis

DataInv == SeedInv /\ EarlierInv /\ EarnedInv /\ BasisInv /\ CorrectionsLast

IInv == TypeOK /\ StartupInv /\ DataInv

LEMMA InitInv == Init => IInv
<1> SUFFICES ASSUME Init PROVE IInv
  OBVIOUS
<1>1. TypeOK /\ StartupInv
  BY InitType, StartupInitInv DEF Init
<1>2. \A fields : /\ Inherit(fields).figure = Inherit(fields).basis
                  /\ \A f \in Fields, c \in Contents : Inherit(fields).figure[f] # c
  BY ReferenceAssumption DEF Inherit, RowOf
<1>3. row # None => /\ row.figure = row.basis
                    /\ \A f \in Fields, c \in Contents : row.figure[f] # c
  BY <1>2 DEF Init
<1>4. SeedInv /\ EarlierInv /\ EarnedInv /\ BasisInv
  BY <1>3 DEF Init, StartupInit, SeedInv, EarlierInv, EarnedInv, Earned, BasisInv, Sessions, Processes
<1>5. CorrectionsLast
  BY DEF Init, StartupInit, CorrectionsLast, Processes
<1> QED
  BY <1>1, <1>4, <1>5 DEF IInv, DataInv

\* The steps of a process that touch no data neither begin a seed nor end one.
LEMMA QuietSteps ==
    ASSUME TypeOK,
           \/ \E w \in Workers : Start(w) \/ Proceed(w)
           \/ \E m \in Migrators : Migrate(m) \/ ProceedMigrating(m) \/ Die(m)
    PROVE  \A w \in Workers :
               /\ stage'[w] = "seed" => stage[w] = "seed"
               /\ stage'[w] \in {"poll", "setup", "index", "up"} =>
                      stage[w] \in {"poll", "setup", "index", "up"}
<1> USE StartupAssumption DEF TypeOK, StartupTypeOK, Processes, Goto
<1>1. CASE \E w \in Workers : Start(w)
  BY <1>1 DEF Start
<1>2. CASE \E w \in Workers : Inspect(w)
  BY <1>2 DEF Inspect
<1>3. CASE \E w \in Workers : LockSchema(w)
  BY <1>3 DEF LockSchema
<1>4. CASE \E w \in Workers : CreateAll(w)
  BY <1>4 DEF CreateAll
<1>5. CASE \E w \in Workers : Poll(w)
  BY <1>5 DEF Poll
<1>6. CASE \E w \in Workers : BeginIndex(w)
  BY <1>6 DEF BeginIndex
<1>7. CASE \E w \in Workers : Record(w)
  BY <1>7 DEF Record
<1>8. CASE \E w \in Workers : EndSetup(w)
  BY <1>8 DEF EndSetup
<1>9. CASE \E m \in Migrators : Migrate(m)
  BY <1>9 DEF Migrate
<1>10. CASE \E m \in Migrators : LockUpgrade(m)
  BY <1>10 DEF LockUpgrade
<1>11. CASE \E m \in Migrators : Upgrade(m)
  BY <1>11 DEF Upgrade
<1>12. CASE \E m \in Migrators : Die(m)
  BY <1>12 DEF Die
<1> QED
  BY <1>1, <1>2, <1>3, <1>4, <1>5, <1>6, <1>7, <1>8, <1>9, <1>10, <1>11, <1>12 DEF Proceed, ProceedMigrating

LEMMA QuietInv ==
    ASSUME IInv, UNCHANGED dataVars,
           \/ \E w \in Workers : Start(w) \/ Proceed(w)
           \/ \E m \in Migrators : Migrate(m) \/ ProceedMigrating(m) \/ Die(m)
    PROVE  IInv'
<1>1. StartupTypeOK' /\ StartupInv'
  BY StartupStepType, StartupStepInv DEF IInv, TypeOK
<1>2. TypeOK'
  BY <1>1 DEF IInv, TypeOK, dataVars
<1>3. SeedInv' /\ CorrectionsLast'
  BY QuietSteps DEF IInv, DataInv, SeedInv, CorrectionsLast, dataVars
<1>4. EarlierInv' /\ EarnedInv' /\ BasisInv'
  BY DEF IInv, DataInv, EarlierInv, EarnedInv, Earned, BasisInv, dataVars
<1> QED
  BY <1>1, <1>2, <1>3, <1>4 DEF IInv, DataInv

-----------------------------------------------------------------------------
(* The seed *)

LEMMA SeedSelectInv ==
    ASSUME IInv, NEW w \in Workers, SeedSelect(w)
    PROVE  IInv'
<1> USE StartupAssumption, ReferenceAssumption
<1>1. StartupTypeOK' /\ StartupInv'
  BY StartupStepType, StartupStepInv DEF IInv, TypeOK, SeedSelect
<1>2. TypeOK'
  BY <1>1 DEF IInv, TypeOK, SeedSelect
<1>3. /\ \A a \in Sessions : read'[a] = IF a = w THEN row ELSE read[a]
      /\ \A v \in Workers : stage'[v] = IF v = w THEN "seed" ELSE stage[v]
      /\ UNCHANGED <<row, logs, req, overwritten>>
  BY DEF IInv, TypeOK, StartupTypeOK, SeedSelect, LockSeed, Goto, Sessions, Processes
<1>4. SeedInv' /\ CorrectionsLast'
  BY <1>3 DEF IInv, DataInv, SeedInv, CorrectionsLast, Sessions, Processes
<1>5. EarlierInv' /\ EarnedInv' /\ BasisInv'
  <2>1. EarlierInv'
    BY <1>3 DEF IInv, DataInv, EarlierInv
  <2>2. EarnedInv'
    BY <1>3 DEF IInv, DataInv, EarnedInv, Earned
  <2>3. BasisInv'
    BY <1>3 DEF IInv, DataInv, BasisInv
  <2> QED
    BY <2>1, <2>2, <2>3
<1> QED
  BY <1>1, <1>2, <1>4, <1>5 DEF IInv, DataInv

\* What an update with the bundled figures leaves in the row.
LEMMA UpdatedBundled ==
    ASSUME NEW old \in Rows, row \in Rows
    PROVE  /\ \A f \in Fields :
                  /\ Updated(old, Bundled).figure[f] = "bundled" \/ Updated(old, Bundled).figure[f] = row.figure[f]
                  /\ old.figure[f] = "earlier" => Updated(old, Bundled).figure[f] = "bundled"
                  /\ Updated(old, Bundled).basis[f] = "bundled" \/ Updated(old, Bundled).basis[f] = row.basis[f]
           /\ row = old => Updated(old, Bundled) = Bundled
<1>1. Bundled.figure = [f \in Fields |-> "bundled"] /\ Bundled.basis = [f \in Fields |-> "bundled"]
  BY DEF Bundled, RowOf
<1>2. row = old => Updated(old, Bundled) = Bundled
  BY <1>1 DEF Updated, Bundled, RowOf, Rows
<1> QED
  BY <1>1, <1>2 DEF Updated

LEMMA SeedCommitInv ==
    ASSUME IInv, NEW w \in Workers, SeedCommit(w)
    PROVE  IInv'
<1>0. PICK old \in Rows \cup {None} : old = read[w]
  BY DEF IInv, TypeOK
<1>1. stage[w] = "seed" /\ (old = None => row = None) /\ old \in Rows \cup {None}
  BY <1>0 DEF IInv, DataInv, SeedInv, TypeOK, SeedCommit, EndSeed, Goto
<1>2. EndSeed(w, FALSE)
  BY <1>0, <1>1 DEF SeedCommit
<1>3. StartupTypeOK' /\ StartupInv'
  BY <1>2, StartupStepType, StartupStepInv DEF IInv, TypeOK
<1>4. row' = IF old = None THEN Bundled ELSE Updated(old, Bundled)
  BY <1>0, <1>1 DEF SeedCommit
<1>5. old # None => row \in Rows
  BY <1>0 DEF IInv, DataInv, SeedInv, TypeOK, Sessions
<1>6. row' \in Rows
  BY <1>1, <1>4, <1>5, BundledType, RowTypes DEF IInv
<1>7. /\ \A a \in Sessions : read'[a] = IF a = w THEN None ELSE read[a]
      /\ \A v \in Workers : stage'[v] = IF v = w THEN "poll" ELSE stage[v]
      /\ UNCHANGED <<logs, req>>
  BY <1>2, StartupAssumption, ReferenceAssumption
     DEF IInv, TypeOK, StartupTypeOK, SeedCommit, EndSeed, Forget, Goto, Sessions, Processes
<1>8. TypeOK'
  BY <1>3, <1>6 DEF IInv, TypeOK, SeedCommit, Forget
<1>9. old # None =>
          /\ \A f \in Fields : /\ row'.figure[f] = "bundled" \/ row'.figure[f] = row.figure[f]
                               /\ old.figure[f] = "earlier" => row'.figure[f] = "bundled"
                               /\ row'.basis[f] = "bundled" \/ row'.basis[f] = row.basis[f]
          /\ row = old => row' = Bundled
          /\ row # None
  <2> SUFFICES ASSUME old # None
               PROVE  /\ \A f \in Fields : /\ row'.figure[f] = "bundled" \/ row'.figure[f] = row.figure[f]
                                           /\ old.figure[f] = "earlier" => row'.figure[f] = "bundled"
                                           /\ row'.basis[f] = "bundled" \/ row'.basis[f] = row.basis[f]
                      /\ row = old => row' = Bundled
                      /\ row # None
    OBVIOUS
  <2>1. old \in Rows /\ row \in Rows /\ row' = Updated(old, Bundled)
    BY <1>1, <1>4, <1>5
  <2>2. /\ \A f \in Fields :
               /\ Updated(old, Bundled).figure[f] = "bundled" \/ Updated(old, Bundled).figure[f] = row.figure[f]
               /\ old.figure[f] = "earlier" => Updated(old, Bundled).figure[f] = "bundled"
               /\ Updated(old, Bundled).basis[f] = "bundled" \/ Updated(old, Bundled).basis[f] = row.basis[f]
        /\ row = old => Updated(old, Bundled) = Bundled
    BY <2>1, UpdatedBundled
  <2>3. row # None
    BY <2>1, ReferenceAssumption
  <2> QED
    BY <2>1, <2>2, <2>3
<1>10. \A f \in Fields : Bundled.figure[f] = "bundled" /\ Bundled.basis[f] = "bundled"
  BY DEF Bundled, RowOf
<1>11. \A f \in Fields : row'.figure[f] # "earlier"
  <2>1. CASE old = None
    BY <2>1, <1>4, <1>10
  <2>2. CASE old # None
    <3>1. \A f \in Fields : row.figure[f] = "earlier" => old.figure[f] = "earlier"
      BY <1>0, <2>2 DEF IInv, DataInv, EarlierInv, Sessions
    <3>2. \A f \in Fields : row'.figure[f] = "bundled" \/ row'.figure[f] = row.figure[f]
      BY <2>2, <1>9
    <3>3. \A f \in Fields : old.figure[f] = "earlier" => row'.figure[f] = "bundled"
      BY <2>2, <1>9
    <3> QED
      BY <3>1, <3>2, <3>3
  <2> QED
    BY <2>1, <2>2
<1>12. Earned(row)' /\ \A a \in Sessions : read'[a] # None => Earned(read[a])'
  <2>1. \A f \in Fields : /\ row'.figure[f] = "bundled" \/ (row # None /\ row'.figure[f] = row.figure[f])
                          /\ row'.basis[f] = "bundled" \/ (row # None /\ row'.basis[f] = row.basis[f])
    <3>1. CASE old = None
      <4>1. row' = Bundled
        BY <3>1, <1>4
      <4> QED
        BY <4>1, <1>10
    <3>2. CASE old # None
      <4>1. row # None
        BY <3>2, <1>9
      <4>2. \A f \in Fields : row'.figure[f] = "bundled" \/ row'.figure[f] = row.figure[f]
        BY <3>2, <1>9
      <4>3. \A f \in Fields : row'.basis[f] = "bundled" \/ row'.basis[f] = row.basis[f]
        BY <3>2, <1>9
      <4> QED
        BY <4>1, <4>2, <4>3
    <3> QED
      BY <3>1, <3>2
  <2>2. \A c \in Contents : c # "bundled"
    BY ReferenceAssumption
  <2>3. \A a \in Sessions : read'[a] # None => Earned(read[a])'
    BY <1>7 DEF IInv, DataInv, EarnedInv, Earned
  <2> QED
    BY <2>1, <2>2, <2>3, <1>7 DEF IInv, DataInv, EarnedInv, Earned
<1>13. SeedInv' /\ EarlierInv' /\ EarnedInv' /\ CorrectionsLast'
  <2>1. \A v \in Workers : stage'[v] = "seed" => FALSE
    BY <1>1, <1>7 DEF IInv, StartupInv, LockInv, Processes
  <2>2. row' # None
    BY <1>6, ReferenceAssumption
  <2>3. SeedInv'
    BY <2>1, <2>2, <1>7, ReferenceAssumption DEF IInv, DataInv, SeedInv, Sessions, Processes
  <2> QED
    BY <2>2, <2>3, <1>7, <1>11, <1>12 DEF EarlierInv, EarnedInv, CorrectionsLast
<1>14. BasisInv'
  <2> SUFFICES ASSUME ~overwritten'
               PROVE  row'.figure = row'.basis /\ \A a \in Sessions : read'[a] # None => read'[a].figure = read'[a].basis
    BY DEF BasisInv
  <2>1. ~overwritten /\ (row = old \/ row' = row)
    BY <1>0 DEF SeedCommit
  <2>2. row' = row \/ row' = Bundled
    <3>1. CASE old = None
      BY <3>1, <1>4
    <3>2. CASE old # None
      BY <3>2, <2>1, <1>9
    <3> QED
      BY <3>1, <3>2
  <2>3. row'.figure = row'.basis
    <3>1. CASE row' = row
      <4>1. row # None
        BY <3>1, <1>6, ReferenceAssumption
      <4> QED
        BY <3>1, <4>1, <2>1 DEF IInv, DataInv, BasisInv
    <3>2. CASE row' = Bundled
      BY <3>2 DEF Bundled, RowOf
    <3> QED
      BY <2>2, <3>1, <3>2
  <2> QED
    BY <2>1, <2>3, <1>7 DEF IInv, DataInv, BasisInv
<1> QED
  BY <1>3, <1>8, <1>13, <1>14 DEF IInv, DataInv

-----------------------------------------------------------------------------
(* The uploads *)

LEMMA UploadInv ==
    ASSUME IInv, NEW u \in Uploads, Upload(u)
    PROVE  IInv'
<1>1. TypeOK' /\ StartupInv'
  BY DEF IInv, TypeOK, StartupTypeOK, StartupInv, LockInv, RoleInv, FoundInv, NobodyCollides,
         Upload, startVars
<1>2. \A v \in Uploads : req'[v] = "write" => req[v] = "write"
  BY DEF IInv, TypeOK, Upload
<1>3. DataInv'
  BY <1>2 DEF IInv, DataInv, SeedInv, EarlierInv, EarnedInv, Earned, BasisInv, CorrectionsLast,
              Upload, startVars
<1> QED
  BY <1>1, <1>3 DEF IInv

LEMMA StoreInv ==
    ASSUME IInv, NEW u \in Uploads, Store(u)
    PROVE  IInv'
<1> USE ReferenceAssumption
<1>1. TypeOK' /\ StartupInv'
  BY DEF IInv, TypeOK, StartupTypeOK, StartupInv, LockInv, RoleInv, FoundInv, NobodyCollides,
         Store, startVars
<1>2. \A v \in Uploads : req'[v] = "write" => req[v] = "write"
  BY DEF IInv, TypeOK, Store
<1>3. \A d \in Contents : logs[d] = "applied" => logs'[d] = "applied"
  BY DEF IInv, TypeOK, Store
<1>4. DataInv'
  BY <1>2, <1>3 DEF IInv, DataInv, SeedInv, EarlierInv, EarnedInv, Earned, BasisInv,
                    CorrectionsLast, Store, startVars
<1> QED
  BY <1>1, <1>4 DEF IInv

LEMMA ApplyReadInv ==
    ASSUME IInv, NEW u \in Uploads, ApplyRead(u)
    PROVE  IInv'
<1> USE ReferenceAssumption
<1>1. StartupTypeOK' /\ StartupInv'
  BY DEF IInv, TypeOK, StartupTypeOK, StartupInv, LockInv, RoleInv, FoundInv, NobodyCollides,
         ApplyRead, startVars
<1>2. TypeOK'
  <2>1. UNCHANGED <<outgoing, row, logs, overwritten>>
    BY DEF ApplyRead
  <2>2. req' \in [Uploads -> {"idle", "store", "apply", "write", "stored", "applied", "raised"}]
    BY DEF IInv, TypeOK, ApplyRead
  <2>3. read' \in [Workers \cup Uploads -> Rows \cup {None}]
    BY DEF IInv, TypeOK, ApplyRead
  <2> QED
    BY <1>1, <2>1, <2>2, <2>3 DEF IInv, TypeOK
<1>3. /\ UNCHANGED <<stage, row, logs, overwritten>>
      /\ \/ read' = read /\ \A v \in Uploads : req'[v] = "write" => req[v] = "write"
         \/ /\ row # None
            /\ \A a \in Sessions : read'[a] = IF a = u THEN row ELSE read[a]
            /\ \A v \in Uploads : req'[v] = IF v = u THEN "write" ELSE req[v]
  BY DEF IInv, TypeOK, ApplyRead, startVars, Sessions
<1>4. SeedInv'
  BY <1>3 DEF IInv, DataInv, SeedInv, Sessions, Processes
<1>5. EarlierInv' /\ EarnedInv' /\ BasisInv' /\ CorrectionsLast'
  <2>1. EarlierInv'
    BY <1>3 DEF IInv, DataInv, EarlierInv
  <2>2. EarnedInv'
    BY <1>3 DEF IInv, DataInv, EarnedInv, Earned
  <2>3. BasisInv'
    BY <1>3 DEF IInv, DataInv, BasisInv
  <2>4. CorrectionsLast'
    BY <1>3 DEF IInv, DataInv, CorrectionsLast
  <2> QED
    BY <2>1, <2>2, <2>3, <2>4
<1> QED
  BY <1>1, <1>2, <1>4, <1>5 DEF IInv, DataInv

\* What an update with what a file has measured leaves in the row.
LEMMA UpdatedMeasured ==
    ASSUME NEW old \in Rows, row \in Rows, NEW c \in Contents
    PROVE  /\ \A f \in Fields :
                  /\ \/ Updated(old, Measured(old, c)).figure[f] = c /\ f \in Usable(c)
                     \/ Updated(old, Measured(old, c)).figure[f] = row.figure[f]
                  /\ \/ Updated(old, Measured(old, c)).basis[f] = c /\ f \in Usable(c)
                     \/ Updated(old, Measured(old, c)).basis[f] = row.basis[f]
                     \/ Updated(old, Measured(old, c)).basis[f] = old.basis[f]
           /\ row = old /\ old.figure = old.basis =>
                  Updated(old, Measured(old, c)).figure = Updated(old, Measured(old, c)).basis
<1>1. /\ Measured(old, c).figure = [f \in Fields |-> IF f \in Usable(c) THEN c ELSE old.figure[f]]
      /\ Measured(old, c).basis = [f \in Fields |-> IF f \in Usable(c) THEN c ELSE old.basis[f]]
  BY DEF Measured
<1>2. \A f \in Fields :
          /\ \/ Updated(old, Measured(old, c)).figure[f] = c /\ f \in Usable(c)
             \/ Updated(old, Measured(old, c)).figure[f] = row.figure[f]
          /\ \/ Updated(old, Measured(old, c)).basis[f] = c /\ f \in Usable(c)
             \/ Updated(old, Measured(old, c)).basis[f] = row.basis[f]
             \/ Updated(old, Measured(old, c)).basis[f] = old.basis[f]
  BY <1>1 DEF Updated
<1>3. row = old => Updated(old, Measured(old, c)) = Measured(old, c)
  BY <1>1 DEF Updated, Measured, Rows
<1>4. old.figure = old.basis => Measured(old, c).figure = Measured(old, c).basis
  BY <1>1
<1> QED
  BY <1>2, <1>3, <1>4

LEMMA ApplyCommitInv ==
    ASSUME IInv, NEW u \in Uploads, ApplyCommit(u)
    PROVE  IInv'
<1> DEFINE c == Content[u]
<1>0. PICK old \in Rows \cup {None} : old = read[u]
  BY DEF IInv, TypeOK
<1>1. c \in Contents /\ old \in Rows /\ row \in Rows
  BY <1>0, ReferenceAssumption DEF IInv, DataInv, SeedInv, TypeOK, ApplyCommit, Sessions
<1>2. row' = Updated(old, Measured(old, c))
  BY <1>0 DEF ApplyCommit
<1>3. row' \in Rows /\ row' # None /\ row # None /\ old # None
  BY <1>1, <1>2, MeasuredType, RowTypes, ReferenceAssumption DEF IInv
<1>4. /\ \A a \in Sessions : read'[a] = IF a = u THEN None ELSE read[a]
      /\ \A v \in Uploads : req'[v] = "write" => v # u /\ req[v] = "write"
      /\ \A d \in Contents : logs'[d] = IF d = c THEN "applied" ELSE logs[d]
      /\ stage' = stage /\ UNCHANGED startVars
  BY <1>1 DEF IInv, TypeOK, ApplyCommit, Forget, Sessions, startVars
<1>5. TypeOK' /\ StartupInv'
  <2>1. StartupTypeOK' /\ StartupInv'
    BY <1>4 DEF IInv, TypeOK, StartupTypeOK, StartupInv, LockInv, RoleInv, FoundInv, NobodyCollides,
                startVars
  <2> QED
    BY <2>1, <1>1, <1>3 DEF IInv, TypeOK, ApplyCommit, Forget
<1>6. /\ \A f \in Fields : \/ row'.figure[f] = c /\ f \in Usable(c)
                           \/ row'.figure[f] = row.figure[f]
      /\ \A f \in Fields : \/ row'.basis[f] = c /\ f \in Usable(c)
                           \/ row'.basis[f] = row.basis[f]
                           \/ row'.basis[f] = old.basis[f]
      /\ row = old /\ old.figure = old.basis => row'.figure = row'.basis
  <2>1. /\ \A f \in Fields :
               /\ \/ Updated(old, Measured(old, c)).figure[f] = c /\ f \in Usable(c)
                  \/ Updated(old, Measured(old, c)).figure[f] = row.figure[f]
               /\ \/ Updated(old, Measured(old, c)).basis[f] = c /\ f \in Usable(c)
                  \/ Updated(old, Measured(old, c)).basis[f] = row.basis[f]
                  \/ Updated(old, Measured(old, c)).basis[f] = old.basis[f]
        /\ row = old /\ old.figure = old.basis =>
               Updated(old, Measured(old, c)).figure = Updated(old, Measured(old, c)).basis
    BY <1>1, UpdatedMeasured
  <2> HIDE DEF c
  <2> QED
    BY <2>1, <1>2
<1> HIDE DEF c
<1>7. SeedInv'
  <2>1. \A w \in Workers : stage'[w] = "seed" => read'[w] # None
    BY <1>3, <1>4, ReferenceAssumption DEF IInv, DataInv, SeedInv, Sessions, Processes
  <2> QED
    BY <2>1, <1>3, <1>4, ReferenceAssumption DEF IInv, DataInv, SeedInv, Sessions, Processes
<1>8. \A f \in Fields : row'.figure[f] = "earlier" => row.figure[f] = "earlier"
  <2>1. c # "earlier"
    BY <1>1, ReferenceAssumption
  <2> QED
    BY <2>1, <1>6
<1>9. EarlierInv' /\ CorrectionsLast'
  <2>1. EarlierInv'
    BY <1>4, <1>8 DEF IInv, DataInv, EarlierInv
  <2>2. CorrectionsLast'
    BY <1>3, <1>4, <1>8 DEF IInv, DataInv, CorrectionsLast
  <2> QED
    BY <2>1, <2>2
<1>10. EarnedInv'
  <2>1. Earned(row) /\ Earned(old)
    BY <1>0, <1>3 DEF IInv, DataInv, EarnedInv, Sessions
  <2>2. \A f \in Fields : f \in Usable(c) => Samples[c][f] >= MinApplySamples
    BY DEF Usable
  <2>3. \A d \in Contents : (logs[d] = "applied" \/ d = c) => logs'[d] = "applied"
    BY <1>4
  <2>4. Earned(row)'
    <3> SUFFICES ASSUME NEW f \in Fields, NEW d \in Contents, row'.figure[f] = d \/ row'.basis[f] = d
                 PROVE  logs'[d] = "applied" /\ Samples[d][f] >= MinApplySamples
      BY DEF Earned
    <3>1. CASE d = c /\ f \in Usable(c)
      BY <3>1, <2>2, <2>3
    <3>2. CASE row.figure[f] = d \/ row.basis[f] = d \/ old.basis[f] = d
      BY <3>2, <2>1, <2>3 DEF Earned
    <3> QED
      BY <3>1, <3>2, <1>6
  <2>5. \A a \in Sessions : read'[a] # None => Earned(read[a])'
    BY <1>4, <2>3 DEF IInv, DataInv, EarnedInv, Earned
  <2> QED
    BY <2>4, <2>5 DEF EarnedInv
<1>11. BasisInv'
  <2> SUFFICES ASSUME ~overwritten'
               PROVE  row'.figure = row'.basis /\ \A a \in Sessions : read'[a] # None => read'[a].figure = read'[a].basis
    BY DEF BasisInv
  <2>1. ~overwritten /\ row = old
    BY <1>0 DEF ApplyCommit
  <2>2. old.figure = old.basis
    BY <2>1, <1>3 DEF IInv, DataInv, BasisInv
  <2> QED
    BY <2>1, <2>2, <1>4, <1>6 DEF IInv, DataInv, BasisInv
<1> QED
  BY <1>5, <1>7, <1>9, <1>10, <1>11 DEF IInv, DataInv

LEMMA UploadFailsInv ==
    ASSUME IInv, NEW u \in Uploads, UploadFails(u)
    PROVE  IInv'
<1> USE StartupAssumption, ReferenceAssumption
<1>1. StartupTypeOK' /\ StartupInv'
  BY DEF IInv, TypeOK, StartupTypeOK, StartupInv, LockInv, RoleInv, FoundInv, NobodyCollides,
         UploadFails
<1>2. TypeOK'
  BY <1>1 DEF IInv, TypeOK, UploadFails, Forget
<1>3. /\ UNCHANGED <<stage, row, logs, overwritten>>
      /\ \A a \in Sessions : read'[a] = IF a = u THEN None ELSE read[a]
      /\ \A v \in Uploads : req'[v] = "write" => v # u /\ req[v] = "write"
  BY DEF IInv, TypeOK, UploadFails, Forget, Sessions
<1>4. SeedInv'
  BY <1>3 DEF IInv, DataInv, SeedInv, Sessions, Processes
<1>5. EarlierInv' /\ EarnedInv' /\ BasisInv' /\ CorrectionsLast'
  <2>1. EarlierInv' /\ CorrectionsLast'
    BY <1>3 DEF IInv, DataInv, EarlierInv, CorrectionsLast
  <2>2. EarnedInv'
    BY <1>3 DEF IInv, DataInv, EarnedInv, Earned
  <2>3. BasisInv'
    BY <1>3 DEF IInv, DataInv, BasisInv
  <2> QED
    BY <2>1, <2>2, <2>3
<1> QED
  BY <1>1, <1>2, <1>4, <1>5 DEF IInv, DataInv

LEMMA WorkerDiesInv ==
    ASSUME IInv, NEW w \in Workers, WorkerDies(w)
    PROVE  IInv'
<1> USE StartupAssumption, ReferenceAssumption
<1>1. StartupTypeOK' /\ StartupInv'
  BY StartupStepType, StartupStepInv DEF IInv, TypeOK, WorkerDies
<1>2. TypeOK'
  BY <1>1 DEF IInv, TypeOK, WorkerDies, Forget
<1>3. /\ UNCHANGED <<row, logs, req, overwritten>>
      /\ \A a \in Sessions : read'[a] = IF a = w THEN None ELSE read[a]
      /\ \A v \in Workers : stage'[v] = IF v = w THEN "down" ELSE stage[v]
  BY DEF IInv, TypeOK, StartupTypeOK, WorkerDies, Die, Forget, Sessions, Processes
<1>4. SeedInv' /\ CorrectionsLast'
  BY <1>3 DEF IInv, DataInv, SeedInv, CorrectionsLast, Sessions, Processes
<1>5. EarlierInv' /\ EarnedInv' /\ BasisInv'
  <2>1. EarlierInv'
    BY <1>3 DEF IInv, DataInv, EarlierInv
  <2>2. EarnedInv'
    BY <1>3 DEF IInv, DataInv, EarnedInv, Earned
  <2>3. BasisInv'
    BY <1>3 DEF IInv, DataInv, BasisInv
  <2> QED
    BY <2>1, <2>2, <2>3
<1> QED
  BY <1>1, <1>2, <1>4, <1>5 DEF IInv, DataInv

\* Nothing that the invariant speaks of changes.
LEMMA StillInv ==
    ASSUME IInv, outgoing' \in BOOLEAN, UNCHANGED <<startVars, row, logs, req, read, overwritten>>
    PROVE  IInv'
<1>1. TypeOK' /\ StartupInv'
  BY DEF IInv, TypeOK, StartupTypeOK, StartupInv, LockInv, RoleInv, FoundInv, NobodyCollides,
         startVars
<1>2. DataInv'
  BY DEF IInv, DataInv, SeedInv, EarlierInv, EarnedInv, Earned, BasisInv, CorrectionsLast, startVars
<1> QED
  BY <1>1, <1>2 DEF IInv

-----------------------------------------------------------------------------
(* The theorems *)

\* Whatever workers, migrations and uploads do, in whatever order, the invariant holds.
THEOREM InductiveInvariant == Spec => []IInv
<1>1. IInv /\ [Next]_vars => IInv'
  <2> SUFFICES ASSUME IInv, [Next]_vars
               PROVE  IInv'
    OBVIOUS
  <2>1. CASE \E w \in Workers : (Start(w) \/ Proceed(w)) /\ UNCHANGED dataVars
    BY <2>1, QuietInv
  <2>2. CASE \E m \in Migrators : (Migrate(m) \/ ProceedMigrating(m) \/ Die(m)) /\ UNCHANGED dataVars
    BY <2>2, QuietInv
  <2>3. CASE \E w \in Workers : SeedSelect(w) \/ SeedCommit(w) \/ WorkerDies(w)
    BY <2>3, SeedSelectInv, SeedCommitInv, WorkerDiesInv
  <2>4. CASE \E u \in Uploads : Upload(u) \/ UploadStep(u) \/ UploadFails(u)
    BY <2>4, UploadInv, StoreInv, ApplyReadInv, ApplyCommitInv, UploadFailsInv DEF UploadStep
  <2>5. CASE Retire
    BY <2>5, StillInv DEF Retire
  <2>6. CASE UNCHANGED vars
    <3>1. outgoing' \in BOOLEAN /\ UNCHANGED <<startVars, row, logs, req, read, overwritten>>
      BY <2>6 DEF vars, dataVars, IInv, TypeOK
    <3> QED
      BY <3>1, StillInv
  <2> QED
    BY <2>1, <2>2, <2>3, <2>4, <2>5, <2>6 DEF Next, WorkerStep, Terminated
<1> QED
  BY <1>1, InitInv, PTL DEF Spec

\* Every variable keeps its type.
THEOREM TypeCorrect == Spec => []TypeOK
<1>1. IInv => TypeOK
  BY DEF IInv
<1> QED
  BY <1>1, InductiveInvariant, PTL

\* However many workers and migrations start together, and wherever one dies, none meets
\* a table or a key that was free when it looked (db/startup_lock.py).
THEOREM NobodyEverCollides == Spec => []NobodyCollides
<1>1. IInv => NobodyCollides
  BY DEF IInv, StartupInv
<1> QED
  BY <1>1, InductiveInvariant, PTL

\* However seeds and uploads interleave, what the row attributes to a log was applied
\* from that log and from enough samples (db/flight_logs.py).
THEOREM MeasuresAreApplied == Spec => []OnlyApplyingMeasures
<1>1. IInv => OnlyApplyingMeasures
  BY DEF IInv, DataInv, EarnedInv, Earned, OnlyApplyingMeasures
<1> QED
  BY <1>1, InductiveInvariant, PTL

\* No upload that read the row before the seed brings back what the seed corrected
\* (db/seed.py).
THEOREM CorrectionsStay == Spec => []CorrectionsLast
<1>1. IInv => CorrectionsLast
  BY DEF IInv, DataInv
<1> QED
  BY <1>1, InductiveInvariant, PTL

\* Only a write over a row that has changed since it was read can part a figure from the
\* record of where it came from (db/models.py, AircraftRow.provenance).
THEOREM BasisInTurn == Spec => []FiguresHaveTheirBasisInTurn
<1>1. IInv => FiguresHaveTheirBasisInTurn
  BY DEF IInv, DataInv, BasisInv, FiguresHaveTheirBasisInTurn, FiguresHaveTheirBasis
<1> QED
  BY <1>1, InductiveInvariant, PTL
=============================================================================
