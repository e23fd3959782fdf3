----------------------------- MODULE FlagStream -----------------------------
(***************************************************************************)
(* One flag on its way into the cache of a Go SDK client (sdk/go) by the   *)
(* event stream of the API replicas (SSEBroker, internal/flags).           *)
(*                                                                         *)
(* A replica tells only the clients connected to it, after the write, and  *)
(* skips a client whose buffer is full.  The client answers an event by    *)
(* fetching the flag.  A stream ends with its connection, the client's own *)
(* request timeout included, and a new one starts with the events that     *)
(* come from then on.  RefreshSession lists the flags in another goroutine *)
(* than the stream's.                                                      *)
(*                                                                         *)
(* Every write gives the flag or its environment state a new value, which  *)
(* is the number of the write.                                             *)
(***************************************************************************)
EXTENDS Integers, FiniteSets

CONSTANTS Replicas, None,
          Buffer,        \* events a slow client is behind at most
          MaxBackoff,    \* cap of the reconnect delay
          MaxWrites, MaxDrops, MaxRefreshes   \* bounds

VARIABLES row,      \* [base, env]: the flag and its environment state; None: deleted
          listed,   \* the flag is among those the list returns, rigid
          writer,   \* the request that changes the flag
          conn,     \* the replica the client streams from
          buf,      \* events in the client's channel at that replica
          reader,   \* the stream's goroutine
          warm,     \* Initialize's or RefreshSession's listing
          cache,    \* the cached flag: value, read, fresh
          backoff,
          writes, drops, refreshes,
          excused   \* ghost: since the last fetch an event was missed or a listing came late

vars == <<row, listed, writer, conn, buf, reader, warm, cache, backoff,
          writes, drops, refreshes, excused>>

At(pc) == [pc |-> pc]

Init ==
  /\ row \in {[base |-> 0, env |-> None], [base |-> 0, env |-> 0]}
  /\ (listed = TRUE \/ listed = FALSE)
  /\ writer = None /\ conn = None /\ buf = 0 /\ reader = At("off")
  /\ warm = At("start") /\ cache = None /\ backoff = 1
  /\ writes = 0 /\ drops = 0 /\ refreshes = 0 /\ excused = FALSE

-----------------------------------------------------------------------------
(* The API                                                                  *)

\* The environment's state is laid over the flag.
Overlaid(base) == IF row # None /\ row.env # None THEN row.env ELSE base

\* What the API says of the flag in the environment.
Shown == IF row = None THEN None ELSE Overlaid(row.base)

\* The client's list request names no environment (warmCache).
listFlags == IF row = None \/ ~listed THEN None ELSE row.base

Write(r, new) ==
  /\ writer = None /\ writes < MaxWrites /\ row # None
  /\ row' = new /\ writes' = writes + 1
  /\ writer' = [at |-> r]
  /\ UNCHANGED <<listed, conn, buf, reader, warm, cache, backoff, drops, refreshes, excused>>

\* Mutant of toggleFlag: the clients are not told.
X_toggleFlag(r) ==
  /\ writer = None /\ writes < MaxWrites /\ row # None
  /\ row' = [row EXCEPT !.base = writes + 1] /\ writes' = writes + 1
  /\ UNCHANGED <<listed, writer, conn, buf, reader, warm, cache, backoff, drops, refreshes, excused>>

\* The flag is written, or its state in the environment, or it is deleted.
toggleFlag(r) == Write(r, [row EXCEPT !.base = writes + 1])
setFlagEnvState(r) == Write(r, [row EXCEPT !.env = writes + 1])
hardDeleteFlag(r) == Write(r, None)

\* A handler's last act before it answers.
Broadcast ==
  /\ writer # None
  /\ writer' = None
  /\ LET heard == conn = writer.at /\ buf < Buffer IN
     /\ buf' = IF heard THEN buf + 1 ELSE buf
     /\ excused' = (excused \/ ~heard)
  /\ UNCHANGED <<row, listed, conn, reader, warm, cache, backoff, writes, drops, refreshes>>

\* The request is cut off between its write and the broadcast.
CutOff ==
  /\ writer # None
  /\ writer' = None /\ excused' = TRUE
  /\ UNCHANGED <<row, listed, conn, buf, reader, warm, cache, backoff, writes, drops, refreshes>>

-----------------------------------------------------------------------------
(* The stream                                                               *)

\* streamFlags subscribes before it reads anything.
Subscribe(r) ==
  /\ reader.pc = "off" /\ warm.pc # "start" /\ conn = None
  /\ conn' = r /\ buf' = 0 /\ reader' = At("read")
  /\ UNCHANGED <<row, listed, writer, warm, cache, backoff, writes, drops, refreshes, excused>>

\* The connection ends; what was not read is gone.
Unsubscribe ==
  /\ conn # None /\ drops < MaxDrops
  /\ drops' = drops + 1
  /\ conn' = None /\ buf' = 0
  /\ excused' = (excused \/ buf > 0)
  /\ UNCHANGED <<row, listed, writer, reader, warm, cache, backoff, writes, refreshes>>

\* The stream has ended, or is refused.  The delay doubles up to its cap; a
\* connection that worked does not reset it.
connectLoop ==
  /\ conn = None /\ warm.pc # "start"
  /\ \/ reader.pc = "read" /\ UNCHANGED drops
     \/ reader.pc = "off" /\ drops < MaxDrops /\ drops' = drops + 1
  /\ reader' = At("off")
  /\ backoff' = IF 2 * backoff > MaxBackoff THEN MaxBackoff ELSE 2 * backoff
  /\ UNCHANGED <<row, listed, writer, conn, buf, warm, cache, writes, refreshes, excused>>

\* The scanner goes on once the flag is fetched, so events are taken in order.
handleEvent ==
  /\ reader.pc = "read" /\ buf > 0
  /\ buf' = buf - 1 /\ reader' = At("fetch")
  /\ UNCHANGED <<row, listed, writer, conn, warm, cache, backoff, writes, drops, refreshes, excused>>

\* An answer that is an error, or none at all: the event is forgotten, the cache
\* stays as it was.
FetchFails == reader' = At("read") /\ excused' = TRUE

\* The request, up to the API's read of the flag.  A flag that is gone answers
\* 404, which is an error like any other.
fetchFlag ==
  /\ reader.pc = "fetch"
  /\ \/ /\ row # None
        /\ reader' = [pc |-> "overlay", value |-> row.base, read |-> writes] /\ excused' = FALSE
     \/ FetchFails
  /\ UNCHANGED <<row, listed, writer, conn, buf, warm, cache, backoff, writes, drops, refreshes>>

\* The API's read of the environment's state, a statement of its own.  Where the
\* environment does not resolve or the read fails, the flag's own value is the
\* answer, with 200.
getFlag ==
  /\ reader.pc = "overlay"
  /\ \/ /\ \E from \in {"fetch", "bare"} :
             reader' = [pc |-> "set", read |-> reader.read, from |-> from,
                        value |-> IF from = "fetch" THEN Overlaid(reader.value) ELSE reader.value]
        /\ UNCHANGED excused
     \/ FetchFails
  /\ UNCHANGED <<row, listed, writer, conn, buf, warm, cache, backoff, writes, drops, refreshes>>

\* cache.set, through onUpdate.
set ==
  /\ reader.pc = "set"
  /\ cache' = [value |-> reader.value, read |-> reader.read, fresh |-> TRUE,
             from |-> reader.from]
  /\ reader' = At("read")
  /\ UNCHANGED <<row, listed, writer, conn, buf, warm, backoff, writes, drops, refreshes, excused>>

-----------------------------------------------------------------------------
(* The client's own calls                                                   *)

\* RefreshSession empties the cache first.
RefreshSession ==
  /\ warm.pc = "done" /\ refreshes < MaxRefreshes
  /\ refreshes' = refreshes + 1
  /\ warm' = At("list") /\ cache' = None
  /\ UNCHANGED <<row, listed, writer, conn, buf, reader, backoff, writes, drops, excused>>

\* A failed listing ends Initialize, unless the client may work offline; it
\* leaves a refreshed session with an empty cache.
warmCache ==
  /\ warm.pc \in {"start", "list"}
  /\ warm' \in {[pc |-> "setAll", value |-> listFlags, read |-> writes], At("done")}
  /\ UNCHANGED <<row, listed, writer, conn, buf, reader, cache, backoff, writes, drops,
                 refreshes, excused>>

\* The whole cache is replaced by what was listed, also where the stream has
\* brought something newer in the meantime.
setAll ==
  /\ warm.pc = "setAll"
  /\ cache' = IF warm.value = None THEN None
              ELSE [value |-> warm.value, read |-> warm.read, fresh |-> TRUE, from |-> "list"]
  /\ excused' = (excused \/ writes > warm.read)
  /\ warm' = At("done")
  /\ UNCHANGED <<row, listed, writer, conn, buf, reader, backoff, writes, drops, refreshes>>

\* Five minutes go by.
Expire ==
  /\ cache # None /\ cache.fresh
  /\ cache' = [cache EXCEPT !.fresh = FALSE]
  /\ UNCHANGED <<row, listed, writer, conn, buf, reader, warm, backoff, writes, drops,
                 refreshes, excused>>

\* The evaluation request of the client has "environment" where the API requires
\* "environment_id", so it is refused; what a caller gets is the cached default,
\* or an error.
resolve(offline) == IF cache # None /\ (cache.fresh \/ offline) THEN cache.value ELSE None

\* The handler that is registered for the flag, expired or not.
Dispatch == IF cache # None THEN cache.value ELSE None

Next ==
  \/ \E r \in Replicas : toggleFlag(r) \/ setFlagEnvState(r) \/ hardDeleteFlag(r) \/ Subscribe(r)
  \/ Broadcast \/ CutOff \/ Unsubscribe \/ connectLoop \/ handleEvent
  \/ fetchFlag \/ getFlag \/ set
  \/ RefreshSession \/ warmCache \/ setAll \/ Expire

Spec == Init /\ [][Next]_vars

-----------------------------------------------------------------------------
(* Properties                                                               *)

TypeOK ==
  /\ row = None \/ (row.base \in 0 .. MaxWrites /\ row.env \in {None} \cup 0 .. MaxWrites)
  /\ buf \in 0 .. Buffer /\ conn \in {None} \cup Replicas
  /\ backoff \in 1 .. MaxBackoff
  /\ (reader.pc = "off" => conn = None)
  /\ resolve(TRUE) = Dispatch /\ resolve(FALSE) \in {None, Dispatch}

Coming == writer # None \/ buf > 0 \/ reader.pc \in {"fetch", "overlay", "set"}

\* A cached flag differs from what the API shows for the environment only while
\* an event or a fetch is under way, when one was missed (connection, buffer,
\* replica, failed fetch), when a listing overtook the stream, because the listing
\* has no environment, or because the API answered without the environment's state
\* (Broadcast, handleEvent, warmCache, getFlag).
StaleIsExplained ==
  cache # None /\ cache.value # Shown =>
    \/ Coming \/ excused
    \/ cache.from = "bare" /\ row # None /\ cache.value = row.base
    \/ cache.from = "list" /\ (cache.value = listFlags \/ cache.read = writes)

\* The cache goes back to an older reading only when a listing and the
\* stream overtake one another (setAll, set).
ForwardStep ==
  cache # None /\ cache' # None /\ cache'.read < cache.read =>
    warm.pc = "setAll" \/ cache.from = "list"
=============================================================================
