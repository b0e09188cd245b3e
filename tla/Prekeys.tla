------------------------------ MODULE Prekeys ------------------------------
(***************************************************************************)
(* One-time pre-keys of one user's devices: how clients top them up        *)
(* (check_and_replenish_otpks, storeOtpkBatch), how the server keeps them  *)
(* (keys.rs) and how it hands them out to whoever opens a chat.            *)
(*                                                                         *)
(* A key stands for its pair: in stock for the public half, in a vault for *)
(* the private one.  The server's transactions are READ COMMITTED: each    *)
(* query is a step, what one reads may be gone at the next.                *)
(***************************************************************************)
EXTENDS Integers, Sequences, SequencesExt, FiniteSets

CONSTANTS
    Device, Key,
    Job,         \* replenishments that can be under way at one time
    Requester,   \* fetches of the user's bundles that can be under way
    Threshold,   \* a client tops up below this many keys
    Batch,       \* with this many
    Cap,         \* OTPK_ABSOLUTE_MAX
    NoDevice

ASSUME PrekeysAssumption ==
    /\ Threshold \in Nat /\ Batch \in Nat \ {0} /\ Cap \in Nat
    /\ NoDevice \notin Device /\ IsFiniteSet(Key)

VARIABLES
    devices,     \* the active devices, by last_seen, which is set at registration
    revoked,
    stock,       \* stock[d]: rows of one_time_pre_keys
    vault,       \* vault[d]: otpk_private_keys in the vault of device d
    job,         \* job[j]: a replenishment and what it found so far
    fetch,       \* fetch[p]: a GET of the bundles and what it found so far
    handed,      \* handed[k]: how often key k was handed out
    maker,       \* maker[k]: the device that generated k
    torn,        \* keys whose replenishment ended early in the client
    met          \* devices two uploads for which passed the cap check together

vars == <<devices, revoked, stock, vault, job, fetch, handed, maker, torn, met>>

NoJob == [step |-> "idle"]
NoFetch == [step |-> "idle"]

Init ==
    /\ devices = <<>> /\ revoked = {}
    /\ stock = [d \in Device |-> {}] /\ vault = [d \in Device |-> {}]
    /\ job = [j \in Job |-> NoJob] /\ fetch = [p \in Requester |-> NoFetch]
    /\ handed = [k \in Key |-> 0]
    /\ maker = [k \in Key |-> NoDevice]
    /\ torn = {} /\ met = {}

Active == Range(devices)
At(step) == { j \in Job : job[j].step = step }

\* ORDER BY last_seen DESC LIMIT 1, whatever device the request came from.
Newest == Last(devices)

\* register_device, which takes no one-time keys; its device is a new row.
Register(d) ==
    /\ d \notin Active \cup revoked
    /\ devices' = Append(devices, d)
    /\ UNCHANGED <<revoked, stock, vault, job, fetch, handed, maker, torn, met>>

\* revoke_device_internal, revoke_own_device.
Revoke(d) ==
    /\ d \in Active
    /\ devices' = Remove(devices, d) /\ revoked' = revoked \cup {d}
    /\ stock' = [stock EXCEPT ![d] = {}]
    /\ UNCHANGED <<vault, job, fetch, handed, maker, torn, met>>

-----------------------------------------------------------------------------
(***************************************************************************)
(* A replenishment: count, generate, upload in two queries, answer, vault. *)
(***************************************************************************)

Set(j, next) == job' = [job EXCEPT ![j] = next]

\* GET /keys/otpk/count, and a new batch if it is low.
Check(j, d, batch) ==
    /\ job[j] = NoJob /\ d \in Active
    /\ Cardinality(stock[Newest]) < Threshold
    /\ \A k \in batch : maker[k] = NoDevice
    /\ Cardinality(batch) = Batch
    /\ maker' = [k \in Key |-> IF k \in batch THEN d ELSE maker[k]]
    /\ Set(j, [step |-> "upload", device |-> d, keys |-> batch])
    /\ UNCHANGED <<devices, revoked, stock, vault, fetch, handed, torn, met>>

\* A faulty cap check that forgets the keys that are being uploaded.
FitsNow(d) == Cardinality(stock[d]) <= Cap

Fits(d) == Cardinality(stock[d]) + Batch <= Cap

\* upload_otpks, first half.  Authorization is that of the session, which a
\* revocation deletes; an error discards the batch.
UploadCheck(j) ==
    LET others == { i \in At("insert") : job[i].target = Newest } IN
    /\ job[j].step = "upload"
    /\ IF job[j].device \in Active /\ Fits(Newest)
       THEN /\ Set(j, [step |-> "insert", device |-> job[j].device,
                       keys |-> job[j].keys, target |-> Newest])
            /\ met' = IF others = {} THEN met ELSE met \cup {Newest}
       ELSE Set(j, NoJob) /\ UNCHANGED met
    /\ UNCHANGED <<devices, revoked, stock, vault, fetch, handed, maker, torn>>

\* upload_otpks, second half: the rows, and the commit.
Insert(j) ==
    /\ job[j].step = "insert"
    /\ stock' = [stock EXCEPT ![job[j].target] = @ \cup job[j].keys]
    /\ Set(j, [step |-> "store", device |-> job[j].device, keys |-> job[j].keys])
    /\ UNCHANGED <<devices, revoked, vault, fetch, handed, maker, torn, met>>

\* A faulty client that keeps the private halves only of what it can still see.
StoreUnsold(j) ==
    LET d == job[j].device IN
    /\ job[j].step = "store"
    /\ vault' = [vault EXCEPT ![d] = @ \cup (job[j].keys \cap stock[d])]
    /\ Set(j, NoJob)
    /\ UNCHANGED <<devices, revoked, stock, fetch, handed, maker, torn, met>>

\* storeOtpkBatch: one transaction of the vault.
Store(j) ==
    LET d == job[j].device IN
    /\ job[j].step = "store"
    /\ vault' = [vault EXCEPT ![d] = @ \cup job[j].keys]
    /\ Set(j, NoJob)
    /\ UNCHANGED <<devices, revoked, stock, fetch, handed, maker, torn, met>>

\* A request or its answer is lost, the vault throws (its BEGIN does inside
\* another's transaction), or the client ends: the batch is dropped.
GiveUp(j) ==
    /\ job[j] # NoJob
    /\ torn' = torn \cup job[j].keys
    /\ \/ Set(j, NoJob) /\ UNCHANGED stock
       \/ /\ job[j].step = "insert"
          /\ stock' = [stock EXCEPT ![job[j].target] = @ \cup job[j].keys]
          /\ Set(j, NoJob)
    /\ UNCHANGED <<devices, revoked, vault, fetch, handed, maker, met>>

-----------------------------------------------------------------------------
(***************************************************************************)
(* get_user_keys_internal: the devices; then DELETE, which picks a row per *)
(* device and, where another request was faster, finds it gone.            *)
(***************************************************************************)

Go(p, next) == fetch' = [fetch EXCEPT ![p] = next]

ListDevices(p) ==
    /\ fetch[p] = NoFetch /\ Active # {}
    /\ Go(p, [step |-> "pick", from |-> Active])
    /\ UNCHANGED <<devices, revoked, stock, vault, job, handed, maker, torn, met>>

\* Rows of one batch have one created_at: the oldest is any of them.
Pick(p) ==
    /\ fetch[p].step = "pick"
    /\ \E rows \in SUBSET UNION { stock[d] : d \in fetch[p].from } :
         /\ \A d \in fetch[p].from :
              Cardinality(rows \cap stock[d]) = IF stock[d] = {} THEN 0 ELSE 1
         /\ Go(p, [step |-> "delete", rows |-> rows])
    /\ UNCHANGED <<devices, revoked, stock, vault, job, handed, maker, torn, met>>

InStock == UNION { stock[d] : d \in Device }

\* A faulty server that hands out what it picked, deleted by itself or not.
Picked(p) == fetch[p].rows

\* The rows DELETE .. RETURNING returns.
Deleted(p) == fetch[p].rows \cap InStock

Delete(p) ==
    /\ fetch[p].step = "delete"
    /\ stock' = [d \in Device |-> stock[d] \ fetch[p].rows]
    /\ handed' = [k \in Key |-> IF k \in Deleted(p) THEN handed[k] + 1 ELSE handed[k]]
    /\ Go(p, NoFetch)
    /\ UNCHANGED <<devices, revoked, vault, job, maker, torn, met>>

Next ==
    \/ \E d \in Device : Register(d) \/ Revoke(d)
    \/ \E j \in Job :
         \/ UploadCheck(j) \/ Insert(j) \/ Store(j) \/ GiveUp(j)
         \/ \E d \in Device, batch \in SUBSET Key : Check(j, d, batch)
    \/ \E p \in Requester : ListDevices(p) \/ Pick(p) \/ Delete(p)

Spec == Init /\ [][Next]_vars

-----------------------------------------------------------------------------

\* Every variable in its range; rows are of keys somebody generated.
TypeOK ==
    /\ IsInjective(devices) /\ Active \cap revoked = {}
    /\ \A d \in Device : stock[d] \cup vault[d] \subseteq { k \in Key : maker[k] # NoDevice }
    /\ \A j \in Job : job[j].step \in {"idle", "upload", "insert", "store"}
    /\ \A p \in Requester : fetch[p].step \in {"idle", "pick", "delete"}
    /\ handed \in [Key -> Nat]

\* A one-time key is handed out once ("Consume one OTPK per device",
\* keys.rs:175), whoever else is fetching, uploading or revoking.
HandedOnce == \A k \in Key : handed[k] + Cardinality({ d \in Device : k \in stock[d] }) <= 1

\* A key somebody was given, or will be, has its private half in the vault of
\* the device that made it or on the way there, if its replenishment was not cut off.
KeyKept ==
    \A k \in Key : handed[k] > 0 \/ k \in InStock =>
      \/ k \in vault[maker[k]] \cup torn
      \/ \E j \in At("store") : k \in job[j].keys /\ job[j].device = maker[k]

\* OTPK_ABSOLUTE_MAX (keys.rs:15) is exceeded only by uploads that overlapped.
CapHolds == \A d \in Device \ met : Cardinality(stock[d]) <= Cap
=============================================================================
