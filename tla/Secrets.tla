------------------------------- MODULE Secrets -------------------------------
(***************************************************************************)
(* secrets/ and identity/keys.py: which backend a process selects, what    *)
(* the keyring and the age file hold, the host identity, and `sevn secret  *)
(* migrate` step by step.  One sevn process touches the secrets at a time; *)
(* the desktop keyring may be locked or go away between any two steps, and *)
(* the process may be killed between any two steps.                        *)
(***************************************************************************)
EXTENDS Naturals, FiniteSets

CONSTANTS
  Names,        \* user secrets; the host identity is one more name
  Values,       \* values of user secrets
  MaxKeys,      \* bound: identities generated, which are the values 1..MaxKeys
  MaxSets       \* bound: secret set and secret rm commands

ASSUME SecretsAssumption == Values \subseteq Nat \ {0}

VARIABLES
  ring,         \* the keyring's items: name -> value, 0 for none
  index,        \* names listed in its item `sevn.names`
  ringState,    \* what probe_secret_service would answer
  age,          \* secrets.age: name -> value, 0 for none
  ageFile,      \* secrets.age exists
  pin,          \* config.toml [secrets] backend
  mig,          \* the migration under way
  stored,       \* the value last reported as stored; 0 for none, or after an error
  hostId,       \* the identity the host last used, 0 before the first
  keys, sets

secretVars == <<ring, index, ringState, age, ageFile, pin, mig, stored, hostId, keys, sets>>

Identity == "host/identity"
AllNames == Names \cup {Identity}
NoMig    == [at |-> "none", from |-> "age-file", todo |-> {}, copied |-> {}, existing |-> {},
             previous |-> [n \in AllNames |-> 0], fresh |-> FALSE]

SecretsTypeOK ==
  /\ \A n \in AllNames : ring[n] \in Nat /\ age[n] \in Nat /\ stored[n] \in Nat
  /\ index \subseteq AllNames
  /\ ringState \in {"unlocked", "locked", "unavailable"}
  /\ ageFile \in BOOLEAN
  /\ pin \in {"none", "secret-service", "age-file"}
  /\ mig.at \in {"none", "copy", "pin", "delete", "undo"}
  /\ hostId \in 0..MaxKeys /\ keys \in 0..MaxKeys /\ sets \in 0..MaxSets

SecretsInit ==
  /\ ring = [n \in AllNames |-> 0] /\ age = ring /\ stored = ring
  /\ index = {}
  /\ ringState \in {"unlocked", "unavailable"}
  /\ ageFile = FALSE
  /\ pin = "none"
  /\ mig = NoMig
  /\ hostId = 0 /\ keys = 0 /\ sets = 0

\* selected_backend on Linux: the pin, an existing secrets.age, an unlocked
\* Secret Service, else the age file.
SelectedBackend ==
  IF pin # "none" THEN pin
  ELSE IF ageFile THEN "age-file"
  ELSE IF ringState = "unlocked" THEN "secret-service"
  ELSE "age-file"

\* _require_unlocked_collection: a backend that can be used right now.
Usable(b) == b = "age-file" \/ ringState = "unlocked"

Holds(b, n) == IF b = "age-file" THEN age[n] ELSE ring[n]

\* SecretServiceBackend.set: the item, then the index; the second call may fail.
RingSet(n, v, complete) ==
  /\ ring' = [ring EXCEPT ![n] = v]
  /\ index' = IF complete THEN index \cup {n} ELSE index
  /\ UNCHANGED <<age, ageFile>>

\* AgeFileBackend.set: one atomic replacement of the file.
AgeSet(n, v) ==
  /\ age' = [age EXCEPT ![n] = v]
  /\ ageFile' = TRUE
  /\ UNCHANGED <<ring, index>>

BackendSet(b, n, v, complete) == IF b = "age-file" THEN AgeSet(n, v) ELSE RingSet(n, v, complete)

RingDelete(n, complete) ==
  /\ ring' = [ring EXCEPT ![n] = 0]
  /\ index' = IF complete THEN index \ {n} ELSE index
  /\ UNCHANGED <<age, ageFile>>

AgeDelete(n) ==
  /\ age' = [age EXCEPT ![n] = 0]
  /\ UNCHANGED <<ring, index, ageFile>>

BackendDelete(b, n, complete) == IF b = "age-file" THEN AgeDelete(n) ELSE RingDelete(n, complete)

BackendNames(b) == IF b = "age-file" THEN {n \in AllNames : age[n] # 0} ELSE index

\* The pin of secret_set and serve: only an unpinned host on the keyring.
PinIfRing(b) == pin' = IF pin = "none" /\ b = "secret-service" THEN "secret-service" ELSE pin

\* load_or_create: the stored identity, else a new key that is stored first.
LoadOrCreate(b) ==
  \/ /\ Holds(b, Identity) # 0
     /\ hostId' = Holds(b, Identity)
     /\ UNCHANGED <<ring, index, age, ageFile, stored, keys>>
  \/ /\ Holds(b, Identity) = 0
     /\ keys < MaxKeys
     /\ keys' = keys + 1
     /\ hostId' = keys'
     /\ stored' = [stored EXCEPT ![Identity] = keys']
     /\ BackendSet(b, Identity, keys', TRUE)

\* serve: refuses a pinned Secret Service that is not unlocked, pins one it
\* selected, then loads the identity.
Serve ==
  /\ mig.at = "none"
  /\ LET b == SelectedBackend
     IN  Usable(b) /\ PinIfRing(b) /\ LoadOrCreate(b)
  /\ UNCHANGED <<ringState, mig, sets>>

\* pair issues a ticket without a host: it loads the identity and pins nothing.
Pair ==
  /\ mig.at = "none"
  /\ LET b == SelectedBackend IN Usable(b) /\ LoadOrCreate(b)
  /\ UNCHANGED <<ringState, pin, mig, sets>>

\* secret set: stored, then pinned; a failed index write reports an error and
\* leaves the item and no pin.
SecretSet(n, v) ==
  /\ mig.at = "none"
  /\ sets < MaxSets
  /\ sets' = sets + 1
  /\ LET b == SelectedBackend
     IN  /\ Usable(b)
         /\ \/ BackendSet(b, n, v, TRUE) /\ PinIfRing(b) /\ stored' = [stored EXCEPT ![n] = v]
            \/ /\ b = "secret-service" /\ RingSet(n, v, FALSE)
               /\ UNCHANGED pin /\ stored' = [stored EXCEPT ![n] = 0]
  /\ UNCHANGED <<ringState, mig, hostId, keys>>

SecretRm(n) ==
  /\ mig.at = "none"
  /\ sets < MaxSets
  /\ sets' = sets + 1
  /\ LET b == SelectedBackend
     IN  /\ Usable(b) /\ Holds(b, n) # 0
         /\ \E complete \in BOOLEAN : BackendDelete(b, n, complete)
  /\ stored' = [stored EXCEPT ![n] = 0]
  /\ UNCHANGED <<ringState, pin, mig, hostId, keys>>

-----------------------------------------------------------------------------
To == IF mig.from = "age-file" THEN "secret-service" ELSE "age-file"

\* migrate, up to the first copy: both backends list their names.
MigrateBegin ==
  /\ mig.at = "none"
  /\ ringState = "unlocked"
  /\ LET b == SelectedBackend
         t == IF b = "age-file" THEN "secret-service" ELSE "age-file"
     IN  mig' = [NoMig EXCEPT !.at = "copy", !.from = b, !.todo = BackendNames(b),
                              !.existing = BackendNames(t), !.fresh = t = "age-file" /\ ~ageFile]
  /\ UNCHANGED <<ring, index, ringState, age, ageFile, pin, stored, hostId, keys, sets>>

\* One name: remember what the target held, write, read back.
MigrateCopy(n) ==
  /\ mig.at = "copy" /\ n \in mig.todo
  /\ Usable(mig.from) /\ Usable(To)
  /\ Holds(mig.from, n) # 0
  /\ BackendSet(To, n, Holds(mig.from, n), TRUE)
  /\ mig' = [mig EXCEPT !.todo = @ \ {n}, !.copied = @ \cup {n},
                        !.previous[n] = IF n \in mig.existing THEN Holds(To, n) ELSE 0]
  /\ UNCHANGED <<ringState, pin, stored, hostId, keys, sets>>

\* Faulty variant: the migration goes on with the next name.
MigrateCopySkips(n) ==
  /\ mig.at = "copy" /\ n \in mig.todo
  /\ mig' = [mig EXCEPT !.todo = @ \ {n}, !.copied = @ \cup {n}]
  /\ UNCHANGED <<ring, index, age, ageFile, ringState, pin, stored, hostId, keys, sets>>

\* Any failure of a copy starts the undo; the write may have happened.
MigrateCopyFails(n) ==
  /\ mig.at = "copy" /\ n \in mig.todo
  /\ mig' = [mig EXCEPT !.at = "undo", !.copied = @ \cup {n},
                        !.previous[n] = IF n \in mig.existing THEN Holds(To, n) ELSE 0]
  /\ \/ /\ Usable(To) /\ Holds(mig.from, n) # 0
        /\ \E complete \in BOOLEAN : BackendSet(To, n, Holds(mig.from, n), complete)
     \/ UNCHANGED <<ring, index, age, ageFile>>
  /\ UNCHANGED <<ringState, pin, stored, hostId, keys, sets>>

\* pin_backend: all names are copied and verified, then the config is written.
MigratePin ==
  /\ mig.at = "copy" /\ mig.todo = {}
  /\ \/ pin' = To /\ mig' = [mig EXCEPT !.at = "delete", !.todo = mig.copied]
     \/ UNCHANGED pin /\ mig' = [mig EXCEPT !.at = "undo"]
  /\ UNCHANGED <<ring, index, ringState, age, ageFile, stored, hostId, keys, sets>>

\* The source copies go last; one that cannot be deleted is left over.
MigrateDelete(n) ==
  /\ mig.at = "delete" /\ n \in mig.todo
  /\ mig' = [mig EXCEPT !.todo = @ \ {n}]
  /\ \/ Usable(mig.from) /\ \E complete \in BOOLEAN : BackendDelete(mig.from, n, complete)
     \/ UNCHANGED <<ring, index, age, ageFile>>
  /\ UNCHANGED <<ringState, pin, stored, hostId, keys, sets>>

MigrateEnd ==
  /\ mig.at = "delete" /\ mig.todo = {}
  /\ mig' = NoMig
  /\ UNCHANGED <<ring, index, ringState, age, ageFile, pin, stored, hostId, keys, sets>>

\* _Undo.run for one name: restored, deleted, or passed over on a failure.
UndoOne(n) ==
  /\ mig.at = "undo" /\ n \in mig.copied
  /\ mig' = [mig EXCEPT !.copied = @ \ {n}]
  /\ \/ /\ Usable(To)
        /\ IF mig.previous[n] # 0 THEN BackendSet(To, n, mig.previous[n], TRUE)
                                  ELSE BackendDelete(To, n, TRUE)
     \/ UNCHANGED <<ring, index, age, ageFile>>
  /\ UNCHANGED <<ringState, pin, stored, hostId, keys, sets>>

\* Then files the target created are removed.
UndoEnd ==
  /\ mig.at = "undo" /\ mig.copied = {}
  /\ mig' = NoMig
  /\ age' = IF mig.fresh THEN [n \in AllNames |-> 0] ELSE age
  /\ ageFile' = (ageFile /\ ~mig.fresh)
  /\ UNCHANGED <<ring, index, ringState, pin, stored, hostId, keys, sets>>

\* The migrating process is killed where it stands.
Killed ==
  /\ mig.at # "none"
  /\ mig' = NoMig
  /\ UNCHANGED <<ring, index, ringState, age, ageFile, pin, stored, hostId, keys, sets>>

\* The desktop session locks or unlocks the collection (external).
RingChanges ==
  /\ ringState # "unavailable"
  /\ ringState' = IF ringState = "locked" THEN "unlocked" ELSE "locked"
  /\ UNCHANGED <<ring, index, age, ageFile, pin, mig, stored, hostId, keys, sets>>

SecretsNext ==
  \/ Serve \/ Pair
  \/ \E n \in Names : SecretRm(n) \/ \E v \in Values : SecretSet(n, v)
  \/ MigrateBegin \/ MigratePin \/ MigrateEnd \/ UndoEnd \/ Killed
  \/ \E n \in AllNames :
       MigrateCopy(n) \/ MigrateCopyFails(n) \/ MigrateDelete(n) \/ UndoOne(n)
  \/ RingChanges

SecretsSpec == SecretsInit /\ [][SecretsNext]_secretVars

-----------------------------------------------------------------------------
\* migrate.py: "The order is fixed so a failure never loses a secret".  After
\* any failures, locks and kills, the value last given to a name is still in
\* the keyring or in the age file.
NoSecretLost == \A n \in AllNames : stored[n] # 0 => stored[n] \in {ring[n], age[n]}

=============================================================================
