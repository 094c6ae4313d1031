-------------------------------- MODULE Logs --------------------------------
(***************************************************************************)
(* sendLog of webapp/nodejs: the settings with their cache                 *)
(* (model/settings.ts), the queue of the log client and the timer that     *)
(* empties it (vendor/isulogger.ts), POST /initialize, which gives the     *)
(* settings new values, and the transactions whose events are logged.      *)
(* A value of a setting is the number of the /initialize that gave it.     *)
(***************************************************************************)
EXTENDS Naturals, Sequences, FiniteSets, SequencesExt

CONSTANTS
    None,           \* no value in the cache
    MaxLogs,        \* bound: calls of sendLog
    MaxInits,       \* bound: calls of /initialize
    MaxRestarts,    \* bound: restarts of the process
    Faults          \* the failures of the environment that may happen

FaultNames == {"select_error", "insert_error", "commit_error", "request_error"}
ASSUME LogsAssumption ==
    /\ MaxLogs \in Nat /\ MaxInits \in Nat /\ MaxRestarts \in Nat
    /\ None \notin Nat /\ Faults \subseteq FaultNames

LOG_ENDPOINT == 1
LOG_APPID == 2
Keys == {LOG_ENDPOINT, LOG_APPID}
Logs == 1..MaxLogs

VARIABLES
    setting,        \* table setting
    settingsCache,  \* the values in memory
    setup,          \* POST /initialize: the key it has yet to write, 0 for none
    inits,          \* calls of /initialize so far
    call,           \* where each sendLog is, and the event it tells
    isulogger,      \* [endpoint, appID] of the log client
    queue,          \* logs to send
    flights,        \* requests under way: their logs and the pair they go to
    delivered,      \* what the log service has taken
    restarts,
    \* history:
    lost,           \* logs of failed requests and of a process that ended
    overlap,        \* a read of a setting met its change, or a change failed
    ready           \* the last /initialize that has given every key its value

settingVars == <<setting, settingsCache, setup, inits, overlap, ready>>
clientVars == <<isulogger, queue, flights, delivered, lost>>
vars == <<settingVars, clientVars, call, restarts>>

\* pc: the call asks for a setting, has read it, or has ended; event: what
\* became of the transaction; awaited: it waits for sendLog before its COMMIT.
NoCall == [pc |-> "none", key |-> LOG_ENDPOINT, val |-> 0, endpoint |-> 0, born |-> 0,
           awaited |-> FALSE, event |-> "none"]
Init ==
    /\ setting = [k \in Keys |-> 0]
    /\ settingsCache = [k \in Keys |-> None]
    /\ setup = 0 /\ inits = 0 /\ ready = 0 /\ overlap = FALSE
    /\ call = [l \in Logs |-> NoCall]
    /\ isulogger = <<None, None>>
    /\ queue = <<>> /\ flights = {} /\ delivered = <<>> /\ lost = {}
    /\ restarts = 0
-----------------------------------------------------------------------------
(* getSetting, getLogger and send. *)

Over(c, pc) == [c EXCEPT !.pc = pc, !.key = LOG_ENDPOINT, !.val = 0, !.endpoint = 0]
LoggerOnce(l, c, key, endpoint, cache) ==   \* mutant: the client is set up once
    LET asks(k, e) == /\ call' = [call EXCEPT ![l] = [c EXCEPT !.pc = "ask", !.key = k,
                                                              !.endpoint = e]]
                      /\ UNCHANGED <<isulogger, queue>>
        first == IF key = LOG_ENDPOINT THEN cache[LOG_ENDPOINT] ELSE endpoint
    IN IF first = None THEN asks(LOG_ENDPOINT, 0)
       ELSE IF cache[LOG_APPID] = None THEN asks(LOG_APPID, first)
       ELSE /\ call' = [call EXCEPT ![l] = Over(c, "end")]
            /\ isulogger' = IF isulogger = <<None, None>>
                            THEN <<first, cache[LOG_APPID]>> ELSE isulogger
            /\ queue' = Append(queue, l)
\* The call goes on with what is cached: it asks the table for the first key
\* that is not, or sets the client's pair and queues its log.
GoOn(l, c, key, endpoint, cache) ==
    LET asks(k, e) == /\ call' = [call EXCEPT ![l] = [c EXCEPT !.pc = "ask", !.key = k,
                                                              !.endpoint = e]]
                      /\ UNCHANGED <<isulogger, queue>>
        first == IF key = LOG_ENDPOINT THEN cache[LOG_ENDPOINT] ELSE endpoint
    IN IF first = None THEN asks(LOG_ENDPOINT, 0)
       ELSE IF cache[LOG_APPID] = None THEN asks(LOG_APPID, first)
       ELSE /\ call' = [call EXCEPT ![l] = Over(c, "end")]
            /\ isulogger' = <<first, cache[LOG_APPID]>>
            /\ queue' = Append(queue, l)

QueueFirst(l, awaited) ==           \* mutant: queued before the settings are read
    /\ call[l].pc = "none" /\ (l > 1 => call[l - 1].pc # "none")
    /\ call' = [call EXCEPT ![l] = [NoCall EXCEPT !.pc = "ask", !.born = ready,
                                       !.awaited = awaited, !.event = "open"]]
    /\ queue' = Append(queue, l)
    /\ UNCHANGED <<isulogger, settingVars, flights, delivered, lost, restarts>>
\* A transaction has done what it logs; calls begin in the order of Logs.
sendLog(l, awaited) ==
    /\ call[l].pc = "none" /\ (l > 1 => call[l - 1].pc # "none")
    /\ GoOn(l, [NoCall EXCEPT !.born = ready, !.awaited = awaited, !.event = "open"],
            LOG_ENDPOINT, 0, settingsCache)
    /\ UNCHANGED <<settingVars, flights, delivered, lost, restarts>>

\* The SELECT.
getSetting(l) ==
    /\ call[l].pc = "ask"
    /\ call' = [call EXCEPT ![l].pc = "read", ![l].val = setting[call[l].key]]
    /\ UNCHANGED <<settingVars, clientVars, restarts>>

\* Its answer is cached, whatever the cache holds by now.
SettingRead(l) ==
    LET cache == [settingsCache EXCEPT ![call[l].key] = call[l].val]
    IN /\ call[l].pc = "read"
       /\ settingsCache' = cache
       /\ GoOn(l, call[l], call[l].key,
               IF call[l].key = LOG_ENDPOINT THEN call[l].val ELSE call[l].endpoint, cache)
       /\ UNCHANGED <<setting, setup, inits, overlap, ready,
                      flights, delivered, lost, restarts>>

\* The SELECT fails: a transaction that awaits rolls back, any other goes on.
SettingFails(l) ==
    /\ call[l].pc = "ask" /\ "select_error" \in Faults
    /\ call' = [call EXCEPT ![l] =
          [Over(call[l], "failed") EXCEPT
             !.event = IF call[l].awaited THEN "rolledback" ELSE call[l].event]]
    /\ UNCHANGED <<settingVars, clientVars, restarts>>

CommitUnawaited(l) ==               \* mutant: the await before sendLog is gone
    /\ call[l].event = "open"
    /\ \/ call' = [call EXCEPT ![l].event = "committed"]
       \/ "commit_error" \in Faults /\ call' = [call EXCEPT ![l].event = "rolledback"]
    /\ UNCHANGED <<settingVars, clientVars, restarts>>
Commit(l) ==
    /\ call[l].event = "open" /\ (call[l].awaited => call[l].pc = "end")
    /\ \/ call' = [call EXCEPT ![l].event = "committed"]
       \/ "commit_error" \in Faults /\ call' = [call EXCEPT ![l].event = "rolledback"]
    /\ UNCHANGED <<settingVars, clientVars, restarts>>
-----------------------------------------------------------------------------
(* setSetting, called by /initialize for one key after the other: the cache  *)
(* first, then the INSERT.                                                   *)

\* Somebody is between its miss of key k and the answer.
Reading(k) == \E l \in Logs : call[l].pc \in {"ask", "read"} /\ call[l].key = k
CacheKept(k, v) ==                  \* mutant: only the table is written
    UNCHANGED settingsCache /\ overlap' = (overlap \/ Reading(k))
CacheSetting(k, v) ==
    /\ settingsCache' = [settingsCache EXCEPT ![k] = v]
    /\ overlap' = (overlap \/ Reading(k))

Initialize ==
    /\ setup = 0 /\ inits < MaxInits
    /\ inits' = inits + 1 /\ setup' = LOG_ENDPOINT
    /\ CacheSetting(LOG_ENDPOINT, inits + 1)
    /\ UNCHANGED <<setting, ready, clientVars, call, restarts>>

\* The INSERT is done: on to the next key.
setSetting ==
    /\ setup # 0
    /\ setting' = [setting EXCEPT ![setup] = inits]
    /\ IF setup = LOG_ENDPOINT
       THEN setup' = LOG_APPID /\ CacheSetting(LOG_APPID, inits) /\ UNCHANGED ready
       ELSE setup' = 0 /\ ready' = inits /\ UNCHANGED <<settingsCache, overlap>>
    /\ UNCHANGED <<inits, clientVars, call, restarts>>

\* The INSERT fails: /initialize is never answered.
setSettingFails ==
    /\ setup # 0 /\ "insert_error" \in Faults
    /\ setup' = 0 /\ overlap' = TRUE
    /\ UNCHANGED <<setting, settingsCache, inits, ready, clientVars, call, restarts>>
-----------------------------------------------------------------------------
(* The timer of the log client: every 200 ms, however long a request takes. *)

FlushLate ==                        \* mutant: the queue is emptied by the answer
    /\ queue # <<>>
    /\ flights' = flights \cup {[logs |-> queue, to |-> isulogger]}
    /\ UNCHANGED <<settingVars, isulogger, queue, delivered, lost, call, restarts>>
FlushFull ==                        \* mutant: a single log waits for another
    /\ Len(queue) > 1
    /\ flights' = flights \cup {[logs |-> queue, to |-> isulogger]}
    /\ queue' = <<>>
    /\ UNCHANGED <<settingVars, isulogger, delivered, lost, call, restarts>>
Flush ==
    /\ queue # <<>>
    /\ flights' = flights \cup {[logs |-> queue, to |-> isulogger]}
    /\ queue' = <<>>
    /\ UNCHANGED <<settingVars, isulogger, delivered, lost, call, restarts>>

Answered(f) ==
    /\ f \in flights /\ flights' = flights \ {f}
    /\ delivered' = delivered \o f.logs
    /\ UNCHANGED <<settingVars, isulogger, queue, lost, call, restarts>>

\* 429, 413 or no answer: logged on the console and forgotten.
RequestFails(f) ==
    /\ f \in flights /\ flights' = flights \ {f} /\ "request_error" \in Faults
    /\ lost' = lost \cup ToSet(f.logs)
    /\ UNCHANGED <<settingVars, isulogger, queue, delivered, call, restarts>>

\* The process ends, by itself (commitReservedOrder) or not, and starts again.
Restart ==
    /\ restarts < MaxRestarts /\ restarts' = restarts + 1
    /\ settingsCache' = [k \in Keys |-> None]
    /\ setup' = 0
    /\ overlap' = FALSE
    /\ call' = [l \in Logs |->
          [(IF call[l].pc \in {"ask", "read"} THEN Over(call[l], "failed") ELSE call[l])
             EXCEPT !.event = IF @ = "open" THEN "rolledback" ELSE @]]
    /\ lost' = lost \cup ToSet(queue) \cup UNION {ToSet(f.logs) : f \in flights}
    /\ isulogger' = <<None, None>> /\ queue' = <<>> /\ flights' = {}
    /\ UNCHANGED <<setting, inits, ready, delivered>>
-----------------------------------------------------------------------------
Step(l) == getSetting(l) \/ SettingRead(l)
Next ==
    \/ \E l \in Logs :
         \/ \E awaited \in BOOLEAN : sendLog(l, awaited)
         \/ Step(l) \/ SettingFails(l) \/ Commit(l)
    \/ Initialize \/ setSetting \/ setSettingFails
    \/ Flush \/ \E f \in flights : Answered(f) \/ RequestFails(f)
    \/ Restart

Spec == Init /\ [][Next]_vars
\* The timer fires for ever; statements and requests end.
FairSpec == /\ Spec /\ WF_vars(Flush)
            /\ WF_vars(\E f \in flights : Answered(f))
            /\ \A l \in Logs : WF_vars(Step(l))
-----------------------------------------------------------------------------
(* Properties. *)

\* Types; a request goes to a service that was read from the settings.
Pair == {None} \cup 0..MaxInits
TypeOK ==
    /\ setting \in [Keys -> 0..MaxInits] /\ settingsCache \in [Keys -> Pair]
    /\ setup \in {0} \cup Keys /\ inits \in 0..MaxInits /\ ready \in 0..inits
    /\ call \in [Logs -> [pc : {"none", "ask", "read", "end", "failed"}, key : Keys,
                          val : 0..MaxInits, endpoint : 0..MaxInits, born : 0..MaxInits,
                          awaited : BOOLEAN,
                          event : {"none", "open", "committed", "rolledback"}]]
    /\ isulogger \in Pair \X Pair
    /\ \A f \in flights : f.logs # <<>> /\ f.to \in (0..MaxInits) \X (0..MaxInits)
    /\ lost \subseteq Logs /\ restarts \in 0..MaxRestarts /\ overlap \in BOOLEAN

\* A log that was queued is in one place and once: in the queue, in a request,
\* at the service, or lost; and no other log is anywhere.
Places(l) ==
    LET count(s) == Cardinality({i \in DOMAIN s : s[i] = l})
    IN count(queue) + count(delivered) + (IF l \in lost THEN 1 ELSE 0)
       + Cardinality({f \in flights : l \in ToSet(f.logs)})
LogsOnce == \A l \in Logs : Places(l) = IF call[l].pc = "end" THEN 1 ELSE 0

\* An order that is committed, placed or cancelled, has its log on the way: the
\* transaction waits for sendLog, so an error of it undoes the order.
CommittedIsLogged ==
    \A l \in Logs : call[l].awaited /\ call[l].event = "committed" => Places(l) = 1

\* Whenever no /initialize is under way the cache holds nothing but what the
\* table holds, unless a read of a setting met its change: the answer to an
\* older SELECT is cached over the newer value.
CacheFollowsTable ==
    setup = 0 /\ ~overlap
      => \A k \in Keys : settingsCache[k] \in {None, setting[k]}

\* The logs of what happened after an /initialize ended go to the service it
\* named and under its id, although the client's pair is shared by all calls
\* and the batch takes the pair of the moment.  Excused: as above.
SentToCurrent ==
    \A f \in flights : \A i \in DOMAIN f.logs :
      overlap \/ (f.to[1] >= call[f.logs[i]].born /\ f.to[2] >= call[f.logs[i]].born)

\* Every call of sendLog ends: its log arrives, or is lost with a request or
\* with the process, or its SELECT failed.
LogsEnd ==
    \A l \in Logs : call[l].pc # "none"
      ~> l \in ToSet(delivered) \cup lost \/ call[l].pc = "failed"
=============================================================================
