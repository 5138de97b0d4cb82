----------------------------- MODULE RawBuffer ------------------------------
(***************************************************************************)
(* Saving what a producer holds and loading it again after a restart:      *)
(* ve_tls_producer_export_raw_buffer and ..._import_raw_buffer.  The       *)
(* program keeps the exported bytes; it may lose the tail of them.         *)
(*                                                                         *)
(* A producer holds raw items in its queue and logs collected in one       *)
(* builder per key.  The export writes one record for each item and one    *)
(* for each builder, with the builder's last log id; the import puts every *)
(* record into the queue as a raw item.  A log is a number given to it     *)
(* when it is added, unlike its id, which a restarted producer may reuse.  *)
(***************************************************************************)
EXTENDS Integers, FiniteSets, SequencesExt

CONSTANTS LogKeys,     \* keys with a builder of their own
          DefaultKey,  \* the key of default_builder
          MaxLogs,     \* bound: logs added
          MaxRecords,  \* records that fit into the queue (max_buffer_bytes)
          MaxCrashes   \* bound: restarts

ASSUME RawBufferAssumption ==
    /\ IsFiniteSet(LogKeys) /\ DefaultKey \notin LogKeys
    /\ {MaxLogs, MaxRecords, MaxCrashes} \subseteq Nat

AllKeys == LogKeys \cup {DefaultKey}

VARIABLES rawQueue,  \* producer->queue: records [id, logs]
          building,  \* the builders: [logs, last], last is end_id
          nextId,    \* producer->next_id
          saved,     \* what the program kept: [recs, next, whole]
          crashes,   \* history: restarts so far
          added,     \* history: logs added so far
          sent,      \* history: logs that went on to the send queue
          covered,   \* history: the logs the producer held at the export
          loaded     \* history: how the import since the last restart ended

rawVars == <<rawQueue, building, nextId, saved, crashes, added, sent, covered, loaded>>

NoBuilders == [k \in AllKeys |-> [logs |-> {}, last |-> 0]]

RawInit ==
    /\ rawQueue = <<>> /\ building = NoBuilders /\ nextId = 1
    /\ saved = [recs |-> <<>>, next |-> 1, whole |-> TRUE]
    /\ crashes = 0 /\ added = 0 /\ sent = {} /\ covered = {} /\ loaded = "none"

Queued == UNION {rawQueue[i].logs : i \in DOMAIN rawQueue}

Held == Queued \cup UNION {building[k].logs : k \in AllKeys}

\* ve_tls_producer_add_log_raw: the log is an item of the queue.
AddItem ==
    /\ added < MaxLogs /\ Len(rawQueue) < MaxRecords
    /\ rawQueue' = Append(rawQueue, [id |-> nextId, logs |-> {added + 1}])
    /\ nextId' = nextId + 1 /\ added' = added + 1
    /\ UNCHANGED <<building, saved, crashes, sent, covered, loaded>>

\* ve_tls_producer_add_log_kv: the log joins the builder of its key.
AddToBuilder(k) ==
    /\ added < MaxLogs
    /\ building' = [building EXCEPT ![k] = [logs |-> @.logs \cup {added + 1}, last |-> nextId]]
    /\ nextId' = nextId + 1 /\ added' = added + 1
    /\ UNCHANGED <<rawQueue, saved, crashes, sent, covered, loaded>>

\* A worker takes the items of the queue, or a builder, on to the send queue,
\* which the export does not look at.
TakeItem ==
    /\ rawQueue # <<>>
    /\ rawQueue' = Tail(rawQueue) /\ sent' = sent \cup Head(rawQueue).logs
    /\ UNCHANGED <<building, nextId, saved, crashes, added, covered, loaded>>

SealBuilder(k) ==
    /\ building[k].logs # {}
    /\ building' = [building EXCEPT ![k] = [logs |-> {}, last |-> 0]]
    /\ sent' = sent \cup building[k].logs
    /\ UNCHANGED <<rawQueue, nextId, saved, crashes, added, covered, loaded>>

BuilderRecords(keys) ==
    [i \in DOMAIN keys |-> [id |-> building[keys[i]].last, logs |-> building[keys[i]].logs]]

\* Mutant: the builders are not exported.
RecordsQueue(keys) == rawQueue

\* The records of an export that meets the builders in the order keys.
Records(keys) == rawQueue \o BuilderRecords(keys)

\* The export, under the mutex.  Nothing is taken out of the producer.  The
\* default builder comes first, the others in the order of the hash buckets.
Export ==
    LET full(S) == {k \in S : building[k].logs # {}}
    IN  \E first \in SetToSeqs(full({DefaultKey})), others \in SetToSeqs(full(LogKeys)) :
        /\ saved' = [recs |-> Records(first \o others), next |-> nextId, whole |-> TRUE]
        /\ covered' = Held
        /\ UNCHANGED <<rawQueue, building, nextId, crashes, added, sent, loaded>>

\* External: the program loses the end of the bytes.
Damage ==
    /\ saved.whole /\ saved.recs # <<>>
    /\ \E n \in 0..(Len(saved.recs) - 1) :
        saved' = [saved EXCEPT !.recs = SubSeq(@, 1, n), !.whole = FALSE]
    /\ UNCHANGED <<rawQueue, building, nextId, crashes, added, sent, covered, loaded>>

\* The process ends and starts again with a new producer.
Crash ==
    /\ crashes < MaxCrashes
    /\ rawQueue' = <<>> /\ building' = NoBuilders /\ nextId' = 1
    /\ crashes' = crashes + 1 /\ loaded' = "none"
    /\ UNCHANGED <<saved, added, sent, covered>>

\* ve_tls_producer_advance_next_log_id, to the largest of the counter, the
\* saved counter and what follows the largest id loaded.
Advanced(recs) == LET ids == {recs[i].id + 1 : i \in DOMAIN recs} \cup {nextId, saved.next}
                  IN  CHOOSE n \in ids : \A m \in ids : m <= n

\* The import loads record after record.  All of them loaded, the ids go on
\* behind them; a record that is cut off, has no room or no memory ends it:
\* what is loaded stays, the ids are not advanced.
Import ==
    /\ \E n \in 0..Len(saved.recs) :
        /\ Len(rawQueue) + n <= MaxRecords
        /\ rawQueue' = rawQueue \o SubSeq(saved.recs, 1, n)
        /\ \/ /\ n = Len(saved.recs) /\ saved.whole
              /\ nextId' = Advanced(saved.recs)
              /\ loaded' = IF loaded = "part" THEN "part" ELSE "all"
           \/ /\ n < Len(saved.recs) \/ ~saved.whole
              /\ loaded' = "part"
              /\ UNCHANGED nextId
    /\ UNCHANGED <<building, saved, crashes, added, sent, covered>>

RawNext ==
    \/ AddItem \/ (\E k \in AllKeys : AddToBuilder(k) \/ SealBuilder(k)) \/ TakeItem
    \/ Export \/ Damage \/ Crash \/ Import

RawSpec == RawInit /\ [][RawNext]_rawVars

-----------------------------------------------------------------------------
(* Properties *)

\* After an import that returned VE_TLS_OK, every log the producer held when
\* it exported is in the producer again or went on to the send queue: neither
\* a crash at any moment nor logs added meanwhile lose one.  And while no
\* import broke off, the ids the producer gives out next are larger than all
\* it holds, so that a callback's range of ids names its logs.
Recovered ==
    /\ loaded = "all" => covered \subseteq Held \cup sent
    /\ loaded # "part" => /\ \A i \in DOMAIN rawQueue : rawQueue[i].id < nextId
                          /\ \A k \in AllKeys : building[k].last < nextId
=============================================================================
