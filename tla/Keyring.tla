------------------------------ MODULE Keyring ------------------------------
(***************************************************************************)
(* Upstream keys (internal/data/keys.go and the key handlers of            *)
(* internal/admin) and the token buckets that the gateway keeps for them   *)
(* by id (internal/ratelimit).  Only a start registers buckets with the    *)
(* rates of their keys, and it goes on when it cannot read them; any other *)
(* key gets the default rate when it is first used, and nothing removes    *)
(* the bucket of a key that is deleted.  Requests use lists of keys that   *)
(* may be out of date.                                                     *)
(*                                                                         *)
(* A bucket is its rate; how it fills is Dispatch's.                       *)
(***************************************************************************)
EXTENDS Integers, Sequences, FiniteSets, Listing

CONSTANTS
  Values,       (* key values of the right form                            *)
  Imports,      (* batches an administrator may paste                      *)
  Overrides,    (* rpm_override of a new key, 0 for none                   *)
  DefaultRPM,   (* the default rate                                        *)
  TestKey,      (* NVIDIA_TEST_KEY                                         *)
  LastKeyId     (* bound: ids given                                        *)

ASSUME KeyringAssumption ==
  /\ TestKey \in Values /\ "" \notin Values
  /\ \A batch \in Imports : Len(batch) \in Nat /\ DOMAIN batch = 1..Len(batch)
  /\ 0 \in Overrides /\ Overrides \subseteq Nat
  /\ DefaultRPM \in Nat \ {0} /\ LastKeyId \in Nat

VARIABLES
  keys,        (* upstream_keys: ids -> [value, override, enabled] or NoKey *)
  lastId,      (* the table's AUTOINCREMENT counter                         *)
  buckets,     (* Manager.buckets: ids -> rate, 0 where there is none       *)
  registered   (* history: keys that the last start registered              *)

keyringVars == <<keys, lastId, buckets, registered>>

-------------------------------------------------------------------------------
KeyIds == 1..LastKeyId

NoKey == [value |-> "", override |-> 0, enabled |-> FALSE]

NewKey(v, override) == [value |-> v, override |-> override, enabled |-> TRUE]

Live == {k \in KeyIds : keys[k] # NoKey}

LiveValues == {keys[k].value : k \in Live}

KeyRPM(override) == IF override > 0 THEN override ELSE DefaultRPM

(* Mutant: a table without AUTOINCREMENT. *)
AfterLargest(used) == IF Live = {} THEN 0 ELSE CHOOSE k \in Live : \A j \in Live : j <= k

(* The largest id ever given. *)
LargestId(used) == used

(* The values of a batch that the transaction inserts: of the right form,  *)
(* the first of their kind, and not in the table yet.                      *)
Inserted(batch) ==
  Thinned(batch, {i \in DOMAIN batch : /\ batch[i] \in Values \ LiveValues
                                       /\ \A j \in 1..(i - 1) : batch[j] # batch[i]})

Added(values, override) ==
  LET base == LargestId(lastId)
  IN  /\ base + Len(values) <= LastKeyId
      /\ keys' = [k \in KeyIds |-> IF k - base \in DOMAIN values
                                   THEN NewKey(values[k - base], override) ELSE keys[k]]
      /\ lastId' = base + Len(values)

-------------------------------------------------------------------------------
(* A value that is there already is refused by the table. *)
addKey(v, override) ==
  /\ v \notin LiveValues
  /\ Added(<<v>>, override)
  /\ UNCHANGED <<buckets, registered>>

BulkAddUpstreamKeys(batch, override) ==
  /\ Inserted(batch) # <<>>
  /\ Added(Inserted(batch), override)
  /\ UNCHANGED <<buckets, registered>>

deleteKey(k) ==
  /\ k \in Live
  /\ keys' = [keys EXCEPT ![k] = NoKey]
  /\ registered' = registered \ {k}
  /\ UNCHANGED <<lastId, buckets>>

updateKey(k) ==
  /\ k \in Live
  /\ keys' = [keys EXCEPT ![k].enabled = ~@]
  /\ UNCHANGED <<lastId, buckets, registered>>

(* Allow, HasAdmission and Calibrate of a request that listed the key when *)
(* it was there and enabled.                                               *)
BucketUsed(k) ==
  /\ k \in 1..lastId /\ buckets[k] = 0
  /\ buckets' = [buckets EXCEPT ![k] = DefaultRPM]
  /\ UNCHANGED <<keys, lastId, registered>>

(* Keys that seedTestKey adds and registers, at the default rate.          *)
Seeded(k) == keys'[k] # NoKey /\ k \notin Live

(* registerKeys, of all keys or, when the table could not be read, of none *)
(* (main logs that and goes on), then seedTestKey, which adds nothing when *)
(* there is no NVIDIA_TEST_KEY, it is in the table or the insertion fails. *)
KeyringStarts ==
  /\ \/ TestKey \notin LiveValues /\ Added(<<TestKey>>, 0)
     \/ UNCHANGED <<keys, lastId>>
  /\ \E listed \in {Live, {}} :
       /\ buckets' = [k \in KeyIds |-> IF Seeded(k) THEN DefaultRPM
                                       ELSE IF k \in listed THEN KeyRPM(keys[k].override) ELSE 0]
       /\ registered' = listed \cup {k \in KeyIds : Seeded(k)}

KeyringInit ==
  /\ keys = [k \in KeyIds |-> NoKey] /\ lastId = 0
  /\ buckets = [k \in KeyIds |-> 0]
  /\ registered = {}

KeyringNext ==
  \/ \E v \in Values, o \in Overrides : addKey(v, o)
  \/ \E batch \in Imports, o \in Overrides : BulkAddUpstreamKeys(batch, o)
  \/ \E k \in KeyIds : deleteKey(k) \/ updateKey(k) \/ BucketUsed(k)
  \/ KeyringStarts

KeyringSpec == KeyringInit /\ [][KeyringNext]_keyringVars

-------------------------------------------------------------------------------
KeyringTypeOK ==
  /\ keys \in [KeyIds -> {NoKey} \cup [value : Values, override : Overrides, enabled : BOOLEAN]]
  /\ lastId \in 0..LastKeyId
  /\ buckets \in [KeyIds -> {0} \cup {KeyRPM(o) : o \in Overrides}]
  /\ registered \subseteq Live

(* No value is in the table twice, however it came there, and a key has a  *)
(* bucket of its own rate, not one left over from a deleted key or made by *)
(* the seeding; only a key that the last start did not register, because   *)
(* it came later or the table could not be read, may have one of the       *)
(* default rate instead, or none yet.                                      *)
BucketsAreTheirOwn ==
  /\ \A j, k \in Live : keys[j].value = keys[k].value => j = k
  /\ \A k \in Live :
       \/ buckets[k] = KeyRPM(keys[k].override)
       \/ k \notin registered /\ buckets[k] \in {0, DefaultRPM}
=============================================================================
