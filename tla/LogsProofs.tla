----------------------------- MODULE LogsProofs -----------------------------
(***************************************************************************)
(* Theorems about Logs for every number of calls of sendLog, of            *)
(* /initialize and of restarts.                                            *)
(***************************************************************************)
EXTENDS Logs, FiniteSetTheorems, SequenceTheorems, TLAPS

Values == 0..MaxInits
Call == [pc : {"none", "ask", "read", "end", "failed"}, key : Keys,
         val : Values, endpoint : Values, born : Values, awaited : BOOLEAN,
         event : {"none", "open", "committed", "rolledback"}]
Flight == [logs : Seq(Logs), to : Pair \X Pair]
TypesInv ==
    /\ TypeOK
    /\ queue \in Seq(Logs) /\ delivered \in Seq(Logs) /\ flights \subseteq Flight
    /\ queue # <<>> => isulogger \in Values \X Values

LEMMA TypesInvParts ==
    TypesInv <=>
      /\ setting \in [Keys -> Values] /\ settingsCache \in [Keys -> Pair]
      /\ setup \in {0} \cup Keys /\ inits \in Values /\ ready \in 0..inits
      /\ call \in [Logs -> Call] /\ isulogger \in Pair \X Pair
      /\ \A f \in flights : f.logs # <<>> /\ f.to \in Values \X Values
      /\ lost \subseteq Logs /\ restarts \in 0..MaxRestarts /\ overlap \in BOOLEAN
      /\ queue \in Seq(Logs) /\ delivered \in Seq(Logs) /\ flights \subseteq Flight
      /\ queue # <<>> => isulogger \in Values \X Values
  BY DEF TypesInv, TypeOK, Values, Call, Pair

LEMMA Settings ==
    /\ 0 \in Values /\ Values \subseteq Nat /\ None \notin Values
    /\ Keys = {LOG_ENDPOINT, LOG_APPID} /\ LOG_ENDPOINT # LOG_APPID /\ 0 \notin Keys
    /\ NoCall \in Call /\ Pair = {None} \cup Values
<1>1. 0 \in Values /\ Values \subseteq Nat /\ None \notin Values
  BY LogsAssumption DEF Values
<1> QED
  BY <1>1 DEF Keys, LOG_ENDPOINT, LOG_APPID, NoCall, Call, Pair, Values

\* GoOn asks for the first key that is not cached, or ends the call.
Asks(l, c, k, e) ==
    /\ call' = [call EXCEPT ![l] = [c EXCEPT !.pc = "ask", !.key = k, !.endpoint = e]]
    /\ UNCHANGED <<isulogger, queue>>
Ends(l, c, e, a) ==
    /\ call' = [call EXCEPT ![l] = Over(c, "end")]
    /\ isulogger' = <<e, a>> /\ queue' = Append(queue, l)

LEMMA GoOnCases ==
    ASSUME NEW l \in Logs, NEW c \in Call, NEW key \in Keys, NEW endpoint \in Values,
           NEW cache \in [Keys -> Pair], GoOn(l, c, key, endpoint, cache)
    PROVE  LET first == IF key = LOG_ENDPOINT THEN cache[LOG_ENDPOINT] ELSE endpoint
           IN \/ cache[LOG_ENDPOINT] = None /\ Asks(l, c, LOG_ENDPOINT, 0)
              \/ first \in Values /\ cache[LOG_APPID] = None /\ Asks(l, c, LOG_APPID, first)
              \/ /\ first \in Values /\ cache[LOG_APPID] \in Values
                 /\ Ends(l, c, first, cache[LOG_APPID])
<1> DEFINE first == IF key = LOG_ENDPOINT THEN cache[LOG_ENDPOINT] ELSE endpoint
<1>1. first = None => cache[LOG_ENDPOINT] = None
  BY Settings
<1>2. first \in Pair /\ cache[LOG_APPID] \in Pair
  BY Settings
<1> HIDE DEF first
<1>3. CASE first = None
  <2>1. Asks(l, c, LOG_ENDPOINT, 0)
    BY <1>3 DEF GoOn, Asks, first
  <2> QED
    BY <1>1, <1>3, <2>1
<1>4. CASE first # None /\ cache[LOG_APPID] = None
  <2>1. Asks(l, c, LOG_APPID, first)
    BY <1>4 DEF GoOn, Asks, first
  <2> QED
    BY <1>2, <1>4, <2>1, Settings DEF first
<1>5. CASE first # None /\ cache[LOG_APPID] # None
  <2>1. Ends(l, c, first, cache[LOG_APPID])
    BY <1>5 DEF GoOn, Ends, first
  <2> QED
    BY <1>2, <1>5, <2>1, Settings DEF first
<1> QED
  BY <1>3, <1>4, <1>5

LEMMA OverCall ==
    ASSUME NEW c \in Call, NEW pc \in {"none", "ask", "read", "end", "failed"}
    PROVE  /\ Over(c, pc) \in Call /\ Over(c, pc).pc = pc /\ Over(c, pc).born = c.born
           /\ Over(c, pc).awaited = c.awaited /\ Over(c, pc).event = c.event
  BY Settings DEF Over, Call

\* What the settings and the calls that read them agree on: while a key is
\* being written nobody reads it, unless overlap says so.
Calm ==
    /\ \A k \in Keys : settingsCache[k] \in {None, IF setup = k THEN inits ELSE setting[k]}
    /\ \A k \in Keys : setup = k => settingsCache[k] # None /\ ~Reading(k)
    /\ \A l \in Logs : call[l].pc = "read" => call[l].val = setting[call[l].key]
    /\ \A l \in Logs : call[l].pc \in {"ask", "read"} /\ call[l].key = LOG_APPID
                       => call[l].endpoint >= ready
    /\ \A i \in DOMAIN queue : /\ isulogger[1] >= call[queue[i]].born
                               /\ isulogger[2] >= call[queue[i]].born
    /\ \A f \in flights : \A i \in DOMAIN f.logs :
         f.to[1] >= call[f.logs[i]].born /\ f.to[2] >= call[f.logs[i]].born
SettingInv ==
    /\ TypesInv
    /\ \A k \in Keys : setting[k] >= ready
    /\ setup = LOG_APPID => setting[LOG_ENDPOINT] = inits
    /\ \A l \in Logs : call[l].born <= ready
    /\ \A i \in DOMAIN queue : call[queue[i]].pc # "none"
    /\ \A f \in flights : \A i \in DOMAIN f.logs : call[f.logs[i]].pc # "none"
    /\ overlap \/ Calm

LEMMA InitSetting == Init => SettingInv
<1> SUFFICES ASSUME Init PROVE SettingInv
  OBVIOUS
<1> USE Settings, LogsAssumption DEF Init
<1>1. \A l \in Logs : call[l] \in Call /\ call[l].pc = "none" /\ call[l].born = 0
  BY DEF NoCall
<1>2. TypesInv
  <2>1. /\ setting \in [Keys -> Values] /\ settingsCache \in [Keys -> Pair]
        /\ setup \in {0} \cup Keys /\ inits \in Values /\ ready \in 0..inits
    OBVIOUS
  <2>2. /\ call \in [Logs -> Call] /\ isulogger \in Pair \X Pair
        /\ queue = <<>> /\ delivered = <<>> /\ queue \in Seq(Logs) /\ delivered \in Seq(Logs)
        /\ flights = {} /\ lost = {} /\ restarts \in 0..MaxRestarts
    BY <1>1
  <2>3. overlap \in BOOLEAN
    BY Zenon
  <2> QED
    BY <2>1, <2>2, <2>3, TypesInvParts
<1>3. Calm
  BY <1>1 DEF Calm, Reading
<1> QED
  BY <1>1, <1>2, <1>3 DEF SettingInv

\* A step that leaves the settings alone and of the calls only changes what
\* became of their transactions.
LEMMA ClientSetting ==
    ASSUME SettingInv, UNCHANGED settingVars, call' \in [Logs -> Call],
           \A l \in Logs : /\ call'[l].born = call[l].born
                           /\ call'[l].pc = "none" => call[l].pc = "none"
                           /\ call'[l].pc \in {"ask", "read"} =>
                                /\ call[l].pc = call'[l].pc /\ call[l].key = call'[l].key
                                /\ call[l].val = call'[l].val
                                /\ call[l].endpoint = call'[l].endpoint,
           queue' \in Seq(Logs), delivered' \in Seq(Logs), lost' \subseteq Logs,
           restarts' \in 0..MaxRestarts,
           UNCHANGED isulogger, queue' = queue \/ queue' = <<>>,
           \A f \in flights' : f \in flights \/ (queue # <<>> /\ f = [logs |-> queue, to |-> isulogger])
    PROVE  SettingInv'
<1>1. /\ setting \in [Keys -> Values] /\ settingsCache \in [Keys -> Pair]
      /\ setup \in {0} \cup Keys /\ inits \in Values /\ ready \in 0..inits
      /\ call \in [Logs -> Call] /\ isulogger \in Pair \X Pair
      /\ \A f \in flights : f.logs # <<>> /\ f.to \in Values \X Values
      /\ queue \in Seq(Logs) /\ flights \subseteq Flight /\ overlap \in BOOLEAN
      /\ queue # <<>> => isulogger \in Values \X Values
  BY TypesInvParts DEF SettingInv
<1>2. UNCHANGED <<setting, settingsCache, setup, inits, ready>> /\ (overlap' <=> overlap)
  BY DEF settingVars
<1>3. TypesInv'
  <2>1. \A f \in flights' : f \in Flight /\ f.logs # <<>> /\ f.to \in Values \X Values
    BY <1>1 DEF Flight
  <2>2. overlap' \in BOOLEAN
    BY <1>1 DEF settingVars
  <2>3. flights' \subseteq Flight
    BY <2>1
  <2> QED
    BY <1>1, <1>2, <2>1, <2>2, <2>3 DEF TypesInv, TypeOK, Values, Call, Pair
<1>4. Calm => Calm'
  <2> SUFFICES ASSUME Calm PROVE Calm'
    OBVIOUS
  <2>1. \A i \in DOMAIN queue' : /\ isulogger'[1] >= call'[queue'[i]].born
                                 /\ isulogger'[2] >= call'[queue'[i]].born
    BY <1>1 DEF Calm
  <2>2. \A f \in flights' : \A i \in DOMAIN f.logs :
          f.to[1] >= call'[f.logs[i]].born /\ f.to[2] >= call'[f.logs[i]].born
    <3> SUFFICES ASSUME NEW f \in flights', NEW i \in DOMAIN f.logs
                 PROVE  f.to[1] >= call'[f.logs[i]].born /\ f.to[2] >= call'[f.logs[i]].born
      OBVIOUS
    <3>1. CASE f \in flights
      <4>1. f.logs[i] \in Logs
        BY <1>1, <3>1 DEF Flight
      <4> QED
        BY <3>1, <4>1 DEF Calm
    <3>2. CASE f = [logs |-> queue, to |-> isulogger]
      <4>1. queue[i] \in Logs /\ i \in DOMAIN queue
        BY <1>1, <3>2
      <4> QED
        BY <3>2, <4>1 DEF Calm
    <3> QED
      BY <3>1, <3>2
  <2>3. \A k \in Keys : Reading(k)' => Reading(k)
    BY DEF Reading
  <2>4. \A l \in Logs :
          /\ call'[l].pc = "read" => call'[l].val = setting'[call'[l].key]
          /\ call'[l].pc \in {"ask", "read"} /\ call'[l].key = LOG_APPID
               => call'[l].endpoint >= ready'
    BY <1>2 DEF Calm
  <2> QED
    BY <1>2, <2>1, <2>2, <2>3, <2>4 DEF Calm
<1>5. \A i \in DOMAIN queue' : call'[queue'[i]].pc # "none"
  BY <1>1 DEF SettingInv
<1>6. \A f \in flights' : \A i \in DOMAIN f.logs : call'[f.logs[i]].pc # "none"
  <2> SUFFICES ASSUME NEW f \in flights', NEW i \in DOMAIN f.logs
               PROVE  call'[f.logs[i]].pc # "none"
    OBVIOUS
  <2>1. CASE f \in flights
    <3>1. f.logs[i] \in Logs
      BY <1>1, <2>1 DEF Flight
    <3> QED
      BY <2>1, <3>1 DEF SettingInv
  <2>2. CASE f = [logs |-> queue, to |-> isulogger]
    <3>1. queue[i] \in Logs /\ i \in DOMAIN queue
      BY <1>1, <2>2
    <3> QED
      BY <2>2, <3>1 DEF SettingInv
  <2> QED
    BY <2>1, <2>2
<1> QED
  BY <1>2, <1>3, <1>4, <1>5, <1>6 DEF SettingInv

\* A step of the call of log l, which becomes r: it reads a setting, caches
\* what it read, asks for the next key, or sets the client and queues its log.
LEMMA CallSetting ==
    ASSUME SettingInv, NEW l \in Logs, NEW r \in Call, call' = [call EXCEPT ![l] = r],
           UNCHANGED <<setting, setup, inits, overlap, ready, flights, delivered, lost, restarts>>,
           r.pc # "none", r.born = call[l].born \/ (call[l].pc = "none" /\ r.born = ready),
           settingsCache' \in [Keys -> Pair],
           \/ UNCHANGED <<isulogger, queue>>
           \/ /\ isulogger' \in Values \X Values /\ queue' = Append(queue, l)
              /\ overlap \/ (isulogger'[1] >= ready /\ isulogger'[2] >= ready),
           \/ overlap
           \/ /\ \A k \in Keys : settingsCache'[k] \in {settingsCache[k], setting[k]}
              /\ \A k \in Keys : setup = k => settingsCache'[k] = settingsCache[k]
              /\ r.pc = "read" => r.val = setting[r.key]
              /\ r.pc \in {"ask", "read"} =>
                   \/ settingsCache'[r.key] = None
                   \/ call[l].pc = "ask" /\ call[l].key = r.key
              /\ r.pc \in {"ask", "read"} /\ r.key = LOG_APPID => r.endpoint >= ready
    PROVE  SettingInv'
<1>1. /\ setting \in [Keys -> Values] /\ settingsCache \in [Keys -> Pair]
      /\ setup \in {0} \cup Keys /\ inits \in Values /\ ready \in 0..inits
      /\ call \in [Logs -> Call] /\ isulogger \in Pair \X Pair
      /\ \A f \in flights : f.logs # <<>> /\ f.to \in Values \X Values
      /\ queue \in Seq(Logs) /\ flights \subseteq Flight /\ overlap \in BOOLEAN
      /\ lost \subseteq Logs /\ restarts \in 0..MaxRestarts /\ delivered \in Seq(Logs)
      /\ queue # <<>> => isulogger \in Values \X Values
  BY TypesInvParts DEF SettingInv
<1>2. /\ call' \in [Logs -> Call] /\ call'[l] = r
      /\ \A m \in Logs \ {l} : call'[m] = call[m]
  BY <1>1
<1>3. r.key \in Keys /\ r.born \in Nat /\ ready \in Nat /\ r.born <= ready
  <2>1. r.key \in Keys /\ r.born \in Values /\ ready \in Nat
    BY <1>1, Settings DEF Call
  <2>2. call[l].born <= ready
    BY DEF SettingInv
  <2>3. r.born <= ready
    BY <2>1, <2>2
  <2>4. r.born \in Nat
    BY <2>1, Settings
  <2> QED
    BY <2>1, <2>3, <2>4
<1>4. /\ queue' \in Seq(Logs) /\ isulogger' \in Pair \X Pair
      /\ queue' # <<>> => isulogger' \in Values \X Values
  <2>1. CASE UNCHANGED <<isulogger, queue>>
    BY <1>1, <2>1
  <2>2. CASE isulogger' \in Values \X Values /\ queue' = Append(queue, l)
    BY <1>1, <2>2, Settings
  <2> QED
    BY <2>1, <2>2
<1>5. \A i \in DOMAIN queue' :
        \/ queue'[i] = l
        \/ i \in DOMAIN queue /\ queue'[i] = queue[i] /\ queue[i] \in Logs
  <2>1. CASE UNCHANGED queue
    BY <1>1, <2>1
  <2>2. CASE queue' = Append(queue, l)
    BY <1>1, <2>2
  <2> QED
    BY <2>1, <2>2
<1>6. \A m \in Logs : call[m].pc # "none" =>
         /\ call'[m].born = call[m].born /\ call'[m].pc # "none"
  BY <1>2
<1>7. \A f \in flights : \A i \in DOMAIN f.logs :
         f.logs[i] \in Logs /\ call[f.logs[i]].pc # "none"
  BY <1>1 DEF SettingInv, Flight
<1>8. TypesInv'
  <2>1. overlap' \in BOOLEAN
    BY <1>1
  <2> QED
    BY <1>1, <1>2, <1>4, <2>1 DEF TypesInv, TypeOK, Values, Call, Pair
<1>9. /\ \A k \in Keys : setting'[k] >= ready'
      /\ setup' = LOG_APPID => setting'[LOG_ENDPOINT] = inits'
  BY DEF SettingInv
<1>10. \A m \in Logs : call'[m].born <= ready'
  BY <1>2, <1>3 DEF SettingInv
<1>11. \A i \in DOMAIN queue' : call'[queue'[i]].pc # "none"
  BY <1>2, <1>5, <1>6 DEF SettingInv
<1>12. \A f \in flights' : \A i \in DOMAIN f.logs : call'[f.logs[i]].pc # "none"
  BY <1>6, <1>7
<1>13. ASSUME ~overlap, Calm PROVE Calm'
  <2>1. \A k \in Keys : settingsCache'[k] \in {None, IF setup' = k THEN inits' ELSE setting'[k]}
    BY <1>13 DEF Calm
  <2>2. ASSUME NEW k \in Keys, setup = k PROVE settingsCache'[k] # None /\ ~Reading(k)'
    <3>1. settingsCache'[k] # None /\ ~Reading(k)
      BY <1>13, <2>2 DEF Calm
    <3>2. \A m \in Logs : call'[m].pc \in {"ask", "read"} => call'[m].key # k
      BY <1>2, <1>13, <3>1 DEF Reading
    <3> QED
      BY <3>1, <3>2 DEF Reading
  <2>3. \A m \in Logs : call'[m].pc = "read" => call'[m].val = setting'[call'[m].key]
    BY <1>2, <1>13 DEF Calm
  <2>4. \A m \in Logs : call'[m].pc \in {"ask", "read"} /\ call'[m].key = LOG_APPID
                       => call'[m].endpoint >= ready'
    BY <1>2, <1>13 DEF Calm
  <2>5. \A i \in DOMAIN queue' : /\ isulogger'[1] >= call'[queue'[i]].born
                                /\ isulogger'[2] >= call'[queue'[i]].born
    <3>1. CASE UNCHANGED <<isulogger, queue>>
      BY <1>1, <1>6, <1>13, <3>1 DEF Calm, SettingInv
    <3>2. CASE isulogger' \in Values \X Values /\ isulogger'[1] >= ready /\ isulogger'[2] >= ready
      <4>1. \A i \in DOMAIN queue' : queue'[i] \in Logs /\ call'[queue'[i]].born \in Nat
        <5>1. \A m \in Logs : call'[m].born \in Nat
          BY <1>2, Settings DEF Call
        <5> QED
          BY <1>5, <5>1
      <4>2. isulogger'[1] \in Nat /\ isulogger'[2] \in Nat
        BY <3>2, Settings
      <4> QED
        BY <1>3, <1>10, <3>2, <4>1, <4>2
    <3> QED
      BY <1>13, <3>1, <3>2
  <2>6. \A f \in flights' : \A i \in DOMAIN f.logs :
          f.to[1] >= call'[f.logs[i]].born /\ f.to[2] >= call'[f.logs[i]].born
    BY <1>6, <1>7, <1>13 DEF Calm
  <2> QED
    BY <2>1, <2>2, <2>3, <2>4, <2>5, <2>6 DEF Calm
<1> QED
  BY <1>8, <1>9, <1>10, <1>11, <1>12, <1>13 DEF SettingInv

\* What follows for the values that are read and cached.
LEMMA Typed ==
    ASSUME SettingInv
    PROVE  /\ call \in [Logs -> Call] /\ settingsCache \in [Keys -> Pair]
           /\ setting \in [Keys -> Values] /\ inits \in Values /\ ready \in Values
           /\ inits \in Nat /\ ready \in Nat /\ inits >= ready
           /\ overlap \/ \A k \in Keys : settingsCache[k] = None \/ settingsCache[k] >= ready
<1>1. /\ call \in [Logs -> Call] /\ settingsCache \in [Keys -> Pair]
      /\ setting \in [Keys -> Values] /\ inits \in 0..MaxInits /\ ready \in 0..inits
  BY TypesInvParts DEF SettingInv, Values
<1>2. inits \in Nat /\ ready \in Nat /\ inits >= ready /\ ready \in 0..MaxInits
  BY <1>1, LogsAssumption
<1>3. ASSUME Calm, NEW k \in Keys PROVE settingsCache[k] = None \/ settingsCache[k] >= ready
  <2>1. setting[k] >= ready
    BY DEF SettingInv
  <2> QED
    BY <1>2, <1>3, <2>1 DEF Calm
<1> QED
  BY <1>1, <1>2, <1>3 DEF SettingInv, Values

LEMMA SendLogSetting ==
    ASSUME SettingInv, NEW l \in Logs, NEW awaited \in BOOLEAN, sendLog(l, awaited)
    PROVE  SettingInv'
<1> DEFINE c == [NoCall EXCEPT !.born = ready, !.awaited = awaited, !.event = "open"]
<1>1. /\ ready \in Values /\ settingsCache \in [Keys -> Pair] /\ call[l].pc = "none"
      /\ GoOn(l, c, LOG_ENDPOINT, 0, settingsCache)
      /\ UNCHANGED <<setting, settingsCache, setup, inits, overlap, ready, flights,
                     delivered, lost, restarts>>
  BY Typed DEF sendLog, settingVars
<1>2. c \in Call /\ c.born = ready
  BY <1>1, Settings DEF Call
<1> HIDE DEF c
<1>3. \A k \in Keys : overlap \/ settingsCache[k] = None \/ settingsCache[k] >= ready
  BY Typed
<1>4. ASSUME NEW k \in Keys, NEW e \in Values, settingsCache[k] = None, Asks(l, c, k, e),
             overlap \/ k = LOG_ENDPOINT \/ e >= ready
      PROVE  SettingInv'
  <2> DEFINE r == [c EXCEPT !.pc = "ask", !.key = k, !.endpoint = e]
  <2>1. r \in Call /\ r.pc = "ask" /\ r.key = k /\ r.endpoint = e /\ r.born = ready
    BY <1>2 DEF Call
  <2>2. call' = [call EXCEPT ![l] = r] /\ UNCHANGED <<isulogger, queue>>
    BY <1>4 DEF Asks
  <2> HIDE DEF r
  <2> QED
    BY <1>1, <1>4, <2>1, <2>2, CallSetting, Settings
<1>5. ASSUME NEW e \in Values, NEW a \in Values, Ends(l, c, e, a),
             overlap \/ (e >= ready /\ a >= ready)
      PROVE  SettingInv'
  <2>1. Over(c, "end") \in Call /\ Over(c, "end").pc = "end" /\ Over(c, "end").born = ready
    BY <1>2, OverCall
  <2>2. /\ call' = [call EXCEPT ![l] = Over(c, "end")]
        /\ isulogger' = <<e, a>> /\ queue' = Append(queue, l)
    BY <1>5 DEF Ends
  <2> QED
    BY <1>1, <1>5, <2>1, <2>2, CallSetting
<1>6. LET first == settingsCache[LOG_ENDPOINT]
      IN \/ first = None /\ Asks(l, c, LOG_ENDPOINT, 0)
         \/ first \in Values /\ settingsCache[LOG_APPID] = None /\ Asks(l, c, LOG_APPID, first)
         \/ /\ first \in Values /\ settingsCache[LOG_APPID] \in Values
            /\ Ends(l, c, first, settingsCache[LOG_APPID])
  BY <1>1, <1>2, GoOnCases, Settings
<1>7. LOG_ENDPOINT \in Keys /\ LOG_APPID \in Keys /\ 0 \in Values /\ None \notin Values
  BY Settings
<1> QED
  BY <1>3, <1>4, <1>5, <1>6, <1>7

LEMMA ReadSetting ==
    ASSUME SettingInv, NEW l \in Logs, getSetting(l) PROVE SettingInv'
<1> DEFINE r == [call[l] EXCEPT !.pc = "read", !.val = setting[call[l].key]]
<1>1. /\ call \in [Logs -> Call] /\ setting \in [Keys -> Values]
      /\ settingsCache \in [Keys -> Pair] /\ call[l].pc = "ask"
  BY TypesInvParts DEF SettingInv, getSetting
<1>2. /\ r \in Call /\ r.pc = "read" /\ r.val = setting[call[l].key] /\ r.key = call[l].key
      /\ r.born = call[l].born /\ r.endpoint = call[l].endpoint
  BY <1>1 DEF Call
<1>3. call' = [call EXCEPT ![l] = r]
  BY <1>1 DEF getSetting
<1>4. UNCHANGED <<setting, settingsCache, setup, inits, overlap, ready, isulogger, queue,
                  flights, delivered, lost, restarts>>
  BY DEF getSetting, settingVars, clientVars
<1>5. overlap \/ (r.key = LOG_APPID => r.endpoint >= ready)
  BY <1>1, <1>2 DEF SettingInv, Calm
<1> HIDE DEF r
<1> QED
  BY <1>1, <1>2, <1>3, <1>4, <1>5, CallSetting

LEMMA CacheSettingRead ==
    ASSUME SettingInv, NEW l \in Logs, SettingRead(l) PROVE SettingInv'
<1> DEFINE c == call[l]
           cache == [settingsCache EXCEPT ![c.key] = c.val]
           given == IF c.key = LOG_ENDPOINT THEN c.val ELSE c.endpoint
<1>1. /\ c \in Call /\ c.pc = "read" /\ settingsCache \in [Keys -> Pair] /\ ready \in Nat
      /\ setting \in [Keys -> Values] /\ inits \in Nat
  BY Typed DEF SettingRead
<1>2. c.key \in Keys /\ c.val \in Values /\ c.endpoint \in Values /\ given \in Values
  BY <1>1 DEF Call
<1>3. cache \in [Keys -> Pair] /\ cache[c.key] = c.val
      /\ \A k \in Keys \ {c.key} : cache[k] = settingsCache[k]
  BY <1>1, <1>2, Settings
<1>4. /\ settingsCache' = cache /\ GoOn(l, c, c.key, given, cache)
      /\ UNCHANGED <<setting, setup, inits, overlap, ready, flights, delivered, lost, restarts>>
  BY DEF SettingRead
<1>5. overlap \/ /\ c.val = setting[c.key] /\ setup # c.key
                 /\ \A k \in Keys : cache[k] \in {settingsCache[k], setting[k]}
                 /\ \A k \in Keys : setup = k => cache[k] = settingsCache[k]
                 /\ \A k \in Keys : cache[k] = None \/ cache[k] >= ready
                 /\ given >= ready
  <2> SUFFICES ASSUME ~overlap
               PROVE  /\ c.val = setting[c.key] /\ setup # c.key
                      /\ \A k \in Keys : cache[k] \in {settingsCache[k], setting[k]}
                      /\ \A k \in Keys : setup = k => cache[k] = settingsCache[k]
                      /\ \A k \in Keys : cache[k] = None \/ cache[k] >= ready
                      /\ given >= ready
    OBVIOUS
  <2>1. Calm /\ \A k \in Keys : setting[k] >= ready
    BY DEF SettingInv
  <2>2. c.val = setting[c.key] /\ setup # c.key
    BY <1>1, <1>2, <2>1 DEF Calm, Reading
  <2>3. \A k \in Keys : cache[k] \in {settingsCache[k], setting[k]}
    BY <1>3, <2>2
  <2>4. \A k \in Keys : setup = k => cache[k] = settingsCache[k]
    BY <1>3, <2>2
  <2>6. \A k \in Keys : cache[k] = None \/ cache[k] >= ready
    BY <2>1, <2>3, Typed
  <2>7. c.key = LOG_ENDPOINT \/ c.endpoint >= ready
    BY <1>1, <1>2, <2>1, Settings DEF Calm
  <2>8. given >= ready
    BY <1>2, <2>1, <2>2, <2>7
  <2> QED
    BY <2>2, <2>3, <2>4, <2>6, <2>8
<1>6. ASSUME NEW k \in Keys, NEW e \in Values, cache[k] = None, Asks(l, c, k, e),
             overlap \/ k = LOG_ENDPOINT \/ e >= ready
      PROVE  SettingInv'
  <2> DEFINE r == [c EXCEPT !.pc = "ask", !.key = k, !.endpoint = e]
  <2>1. r \in Call /\ r.pc = "ask" /\ r.key = k /\ r.endpoint = e /\ r.born = c.born
    BY <1>1, <1>6 DEF Call
  <2>2. call' = [call EXCEPT ![l] = r] /\ UNCHANGED <<isulogger, queue>>
    BY <1>6 DEF Asks
  <2> HIDE DEF r, cache, given
  <2> QED
    BY <1>3, <1>4, <1>5, <1>6, <2>1, <2>2, CallSetting, Settings
<1>7. ASSUME NEW e \in Values, NEW a \in Values, Ends(l, c, e, a),
             overlap \/ (e >= ready /\ a >= ready)
      PROVE  SettingInv'
  <2>1. Over(c, "end") \in Call /\ Over(c, "end").pc = "end" /\ Over(c, "end").born = c.born
    BY <1>1, OverCall
  <2>2. /\ call' = [call EXCEPT ![l] = Over(c, "end")]
        /\ isulogger' = <<e, a>> /\ queue' = Append(queue, l)
    BY <1>7 DEF Ends
  <2> HIDE DEF cache, given
  <2> QED
    BY <1>3, <1>4, <1>5, <1>7, <2>1, <2>2, CallSetting
<1>8. LET first == IF c.key = LOG_ENDPOINT THEN cache[LOG_ENDPOINT] ELSE given
      IN \/ cache[LOG_ENDPOINT] = None /\ Asks(l, c, LOG_ENDPOINT, 0)
         \/ first \in Values /\ cache[LOG_APPID] = None /\ Asks(l, c, LOG_APPID, first)
         \/ /\ first \in Values /\ cache[LOG_APPID] \in Values
            /\ Ends(l, c, first, cache[LOG_APPID])
  <2> HIDE DEF cache, given, c
  <2> QED
    BY <1>1, <1>2, <1>3, <1>4, GoOnCases
<1>9. (IF c.key = LOG_ENDPOINT THEN cache[LOG_ENDPOINT] ELSE given) = given
  BY <1>3
<1>10. LOG_ENDPOINT \in Keys /\ LOG_APPID \in Keys /\ 0 \in Values /\ None \notin Values
  BY Settings
<1> HIDE DEF cache, given, c
<1> QED
  BY <1>5, <1>6, <1>7, <1>8, <1>9, <1>10

\* A step that changes the settings only.
LEMMA InitializeTypes ==
    ASSUME SettingInv, Initialize \/ setSetting \/ setSettingFails
    PROVE  /\ UNCHANGED <<isulogger, queue, flights, delivered, lost, call, restarts>>
           /\ setting' \in [Keys -> Values] /\ settingsCache' \in [Keys -> Pair]
           /\ setup' \in {0} \cup Keys /\ inits' \in Values /\ ready' \in 0..inits'
           /\ TypesInv'
<1>1. UNCHANGED <<isulogger, queue, flights, delivered, lost, call, restarts>>
  BY DEF Initialize, setSetting, setSettingFails, clientVars
<1>2. /\ setting \in [Keys -> Values] /\ settingsCache \in [Keys -> Pair]
      /\ setup \in {0} \cup Keys /\ inits \in 0..MaxInits /\ ready \in 0..inits
      /\ overlap \in BOOLEAN /\ MaxInits \in Nat
  BY TypesInvParts, LogsAssumption DEF SettingInv, Values
<1>3. /\ setting' \in [Keys -> Values] /\ settingsCache' \in [Keys -> Pair]
      /\ setup' \in {0} \cup Keys /\ inits' \in Values /\ ready' \in 0..inits'
  <2>1. CASE Initialize
    <3>1. inits + 1 \in Values /\ inits' = inits + 1 /\ setting' = setting /\ ready' = ready
      BY <1>2, <2>1 DEF Initialize, Values
    <3>2. settingsCache' \in [Keys -> Pair] /\ setup' \in {0} \cup Keys
      BY <1>2, <2>1, <3>1, Settings DEF Initialize, CacheSetting
    <3> QED
      BY <1>2, <3>1, <3>2
  <2>2. CASE setSetting
    <3>1. inits \in Values /\ inits \in Pair /\ inits' = inits
      BY <1>2, <2>2, Settings DEF setSetting, Values
    <3>2. setting' \in [Keys -> Values]
      BY <1>2, <2>2, <3>1 DEF setSetting
    <3>3. settingsCache' \in [Keys -> Pair] /\ setup' \in {0} \cup Keys
      BY <1>2, <2>2, <3>1, Settings DEF setSetting, CacheSetting
    <3>4. ready' \in 0..inits'
      BY <1>2, <2>2, <3>1 DEF setSetting
    <3> QED
      BY <3>1, <3>2, <3>3, <3>4
  <2>3. CASE setSettingFails
    BY <1>2, <2>3 DEF setSettingFails, Values
  <2> QED
    BY <2>1, <2>2, <2>3
<1>4. overlap' \in BOOLEAN
  BY <1>2 DEF Initialize, setSetting, setSettingFails, CacheSetting
<1>5. TypesInv'
  BY <1>1, <1>3, <1>4, TypesInvParts DEF SettingInv, TypesInv, TypeOK, Values, Call, Pair
<1> QED
  BY <1>1, <1>3, <1>5

LEMMA InitializeSetting ==
    ASSUME SettingInv, Initialize \/ setSetting \/ setSettingFails PROVE SettingInv'
<1>1. /\ UNCHANGED <<isulogger, queue, flights, delivered, lost, call, restarts>>
      /\ setting' \in [Keys -> Values] /\ settingsCache' \in [Keys -> Pair]
      /\ setup' \in {0} \cup Keys /\ inits' \in Values /\ ready' \in 0..inits' /\ TypesInv'
  BY InitializeTypes
<1>2. /\ setting \in [Keys -> Values] /\ settingsCache \in [Keys -> Pair] /\ call \in [Logs -> Call]
      /\ inits \in Nat /\ ready \in Nat /\ inits >= ready
  BY Typed
<1>3. \A i \in DOMAIN queue' : call'[queue'[i]].pc # "none"
  BY <1>1 DEF SettingInv
<1>4. \A f \in flights' : \A i \in DOMAIN f.logs : call'[f.logs[i]].pc # "none"
  BY <1>1 DEF SettingInv
<1>5. \A l \in Logs : call[l].born \in Nat /\ call[l].born <= ready
  BY <1>2, Settings DEF SettingInv, Call
<1>6. \A k : Reading(k)' <=> Reading(k)
  BY <1>1 DEF Reading
<1>7. \A l \in Logs : call[l].key \in Keys
  BY <1>2 DEF Call
<1>8. CASE Initialize
  <2>1. /\ setup = 0 /\ setup' = LOG_ENDPOINT /\ inits' = inits + 1 /\ setting' = setting
        /\ ready' = ready /\ settingsCache' = [settingsCache EXCEPT ![LOG_ENDPOINT] = inits']
        /\ overlap' = (overlap \/ Reading(LOG_ENDPOINT))
    BY <1>8 DEF Initialize, CacheSetting
  <2>2. Calm /\ ~overlap' => Calm'
    BY <1>1, <1>2, <1>6, <2>1, Settings DEF Calm
  <2> QED
    BY <1>1, <1>3, <1>4, <1>5, <2>1, <2>2, Settings DEF SettingInv
<1>9. CASE setSetting /\ setup = LOG_ENDPOINT
  <2>1. /\ setup' = LOG_APPID /\ inits' = inits /\ ready' = ready
        /\ setting' = [setting EXCEPT ![LOG_ENDPOINT] = inits]
        /\ settingsCache' = [settingsCache EXCEPT ![LOG_APPID] = inits]
        /\ overlap' = (overlap \/ Reading(LOG_APPID))
    BY <1>9, Settings DEF setSetting, CacheSetting
  <2>2. ASSUME Calm, ~overlap' PROVE Calm'
    <3>1. ~Reading(LOG_ENDPOINT) /\ ~Reading(LOG_APPID)
      BY <1>9, <2>1, <2>2, Settings DEF Calm
    <3>2. \A l \in Logs : call[l].pc \notin {"ask", "read"}
      BY <1>7, <3>1, Settings DEF Reading
    <3>3. \A k \in Keys : settingsCache'[k] \in {None, IF setup' = k THEN inits' ELSE setting'[k]}
      BY <1>2, <1>9, <2>1, <2>2, Settings DEF Calm
    <3>4. inits # None
      BY <1>2, LogsAssumption
    <3> QED
      BY <1>1, <1>2, <1>6, <2>1, <2>2, <3>1, <3>2, <3>3, <3>4, Settings DEF Calm
  <2>3. \A k \in Keys : setting'[k] >= ready'
    BY <1>2, <2>1 DEF SettingInv
  <2> QED
    BY <1>1, <1>2, <1>3, <1>4, <1>5, <2>1, <2>2, <2>3, Settings DEF SettingInv
<1>10. CASE setSetting /\ setup = LOG_APPID
  <2>1. /\ setup' = 0 /\ inits' = inits /\ ready' = inits
        /\ setting' = [setting EXCEPT ![LOG_APPID] = inits]
        /\ UNCHANGED <<settingsCache, overlap>>
    BY <1>10, Settings DEF setSetting
  <2>2. setting[LOG_ENDPOINT] = inits
    BY <1>10 DEF SettingInv
  <2>3. \A k \in Keys : setting'[k] = inits
    BY <1>2, <2>1, <2>2, Settings
  <2>4. ASSUME Calm PROVE Calm'
    <3>1. ~Reading(LOG_APPID)
      BY <1>10, <2>4, Settings DEF Calm
    <3>2. \A l \in Logs : call[l].pc \in {"ask", "read"} => call[l].key = LOG_ENDPOINT
      BY <1>7, <3>1, Settings DEF Reading
    <3>3. \A k \in Keys : settingsCache'[k] \in {None, IF setup' = k THEN inits' ELSE setting'[k]}
      BY <1>10, <2>1, <2>2, <2>3, <2>4, Settings DEF Calm
    <3>4. \A l \in Logs : call[l].pc = "read" => call[l].val = setting'[call[l].key]
      BY <1>2, <2>1, <2>4, <3>2, Settings DEF Calm
    <3> QED
      BY <1>1, <2>1, <2>4, <3>2, <3>3, <3>4, Settings DEF Calm
  <2>5. \A l \in Logs : call'[l].born <= ready'
    BY <1>1, <1>2, <1>5, <2>1
  <2>6. \A k \in Keys : setting'[k] >= ready'
    BY <1>2, <2>1, <2>3
  <2> QED
    BY <1>1, <1>3, <1>4, <2>1, <2>4, <2>5, <2>6, Settings DEF SettingInv
<1>11. CASE setSettingFails
  BY <1>1, <1>3, <1>4, <1>11, Settings DEF setSettingFails, SettingInv
<1>12. setup = 0 \/ setup = LOG_ENDPOINT \/ setup = LOG_APPID
  BY TypesInvParts, Settings DEF SettingInv
<1> QED
  BY <1>8, <1>9, <1>10, <1>11, <1>12 DEF setSetting

LEMMA OtherSetting ==
    ASSUME SettingInv,
           \/ \E l \in Logs : SettingFails(l) \/ Commit(l)
           \/ Flush \/ \E f \in flights : Answered(f) \/ RequestFails(f)
           \/ UNCHANGED vars
    PROVE  SettingInv'
<1>1. /\ call \in [Logs -> Call] /\ queue \in Seq(Logs) /\ delivered \in Seq(Logs)
      /\ lost \subseteq Logs /\ flights \subseteq Flight /\ restarts \in 0..MaxRestarts
  BY TypesInvParts DEF SettingInv
<1>2. ASSUME UNCHANGED <<settingVars, call, isulogger, restarts>>,
             queue' \in Seq(Logs), delivered' \in Seq(Logs), lost' \subseteq Logs,
             queue' = queue \/ queue' = <<>>,
             \A f \in flights' : f \in flights
                                 \/ (queue # <<>> /\ f = [logs |-> queue, to |-> isulogger])
      PROVE  SettingInv'
  BY <1>1, <1>2, ClientSetting
<1>3. ASSUME NEW l \in Logs, SettingFails(l) PROVE SettingInv'
  <2> DEFINE o == Over(call[l], "failed")
             r == [o EXCEPT !.event = IF call[l].awaited THEN "rolledback" ELSE call[l].event]
  <2>1. o \in Call /\ o.pc = "failed" /\ o.born = call[l].born
    BY <1>1, OverCall
  <2> HIDE DEF o
  <2>2. r \in Call /\ r.pc = "failed" /\ r.born = call[l].born
    BY <1>1, <2>1 DEF Call
  <2>3. call' = [call EXCEPT ![l] = r]
    BY <1>1, <1>3 DEF SettingFails, o
  <2> HIDE DEF r
  <2>4. UNCHANGED <<settingVars, isulogger, queue, flights, delivered, lost, restarts>>
    BY <1>3 DEF SettingFails, clientVars
  <2> QED
    BY <1>1, <2>2, <2>3, <2>4, ClientSetting
<1>4. ASSUME NEW l \in Logs, Commit(l) PROVE SettingInv'
  <2>1. PICK e \in {"committed", "rolledback"} : call' = [call EXCEPT ![l].event = e]
    BY <1>4 DEF Commit
  <2> DEFINE r == [call[l] EXCEPT !.event = e]
  <2>2. /\ r \in Call /\ r.pc = call[l].pc /\ r.born = call[l].born /\ r.key = call[l].key
        /\ r.val = call[l].val /\ r.endpoint = call[l].endpoint
    BY <1>1 DEF Call
  <2>3. call' = [call EXCEPT ![l] = r]
    BY <1>1, <2>1
  <2> HIDE DEF r
  <2>4. UNCHANGED <<settingVars, isulogger, queue, flights, delivered, lost, restarts>>
    BY <1>4 DEF Commit, clientVars
  <2> QED
    BY <1>1, <2>2, <2>3, <2>4, ClientSetting
<1>5. CASE Flush
  BY <1>1, <1>2, <1>5 DEF Flush
<1>6. ASSUME NEW f \in flights, Answered(f) PROVE SettingInv'
  <2>1. f.logs \in Seq(Logs)
    BY <1>1 DEF Flight
  <2>2. delivered' \in Seq(Logs)
    BY <1>1, <1>6, <2>1 DEF Answered
  <2> QED
    BY <1>1, <1>2, <1>6, <2>2 DEF Answered
<1>7. ASSUME NEW f \in flights, RequestFails(f) PROVE SettingInv'
  <2>1. ToSet(f.logs) \subseteq Logs
    BY <1>1 DEF Flight, ToSet
  <2> QED
    BY <1>1, <1>2, <1>7, <2>1 DEF RequestFails
<1>8. CASE UNCHANGED vars
  BY <1>1, <1>2, <1>8 DEF vars, clientVars
<1> QED
  BY <1>3, <1>4, <1>5, <1>6, <1>7, <1>8

LEMMA RestartSetting == ASSUME SettingInv, Restart PROVE SettingInv'
<1>1. /\ call \in [Logs -> Call] /\ queue \in Seq(Logs) /\ delivered \in Seq(Logs)
      /\ lost \subseteq Logs /\ flights \subseteq Flight /\ restarts \in 0..MaxRestarts
      /\ setting \in [Keys -> Values] /\ inits \in Values /\ ready \in 0..inits
  BY TypesInvParts DEF SettingInv
<1>2. \A l \in Logs : /\ call'[l] \in Call /\ call'[l].pc \notin {"ask", "read"}
                      /\ call'[l].born = call[l].born
  <2> SUFFICES ASSUME NEW l \in Logs
               PROVE  /\ call'[l] \in Call /\ call'[l].pc \notin {"ask", "read"}
                      /\ call'[l].born = call[l].born
    OBVIOUS
  <2> DEFINE c == IF call[l].pc \in {"ask", "read"} THEN Over(call[l], "failed") ELSE call[l]
  <2>1. c \in Call /\ c.pc \notin {"ask", "read"} /\ c.born = call[l].born
    BY <1>1, OverCall
  <2>2. call'[l] = [c EXCEPT !.event = IF c.event = "open" THEN "rolledback" ELSE c.event]
    BY DEF Restart
  <2> HIDE DEF c
  <2> QED
    BY <2>1, <2>2 DEF Call
<1>3. /\ settingsCache' = [k \in Keys |-> None] /\ setup' = 0 /\ overlap' = FALSE
      /\ isulogger' = <<None, None>> /\ queue' = <<>> /\ DOMAIN queue' = {} /\ flights' = {}
      /\ UNCHANGED <<setting, inits, ready, delivered>>
  BY DEF Restart
<1>4. TypesInv'
  <2>1. lost' \subseteq Logs
    <3>1. ToSet(queue) \subseteq Logs
      BY <1>1 DEF ToSet
    <3>2. \A f \in flights : ToSet(f.logs) \subseteq Logs
      BY <1>1 DEF Flight, ToSet
    <3> QED
      BY <1>1, <3>1, <3>2 DEF Restart
  <2>2. call' \in [Logs -> Call]
    BY <1>2 DEF Restart
  <2>3. restarts' \in 0..MaxRestarts
    BY <1>1, LogsAssumption DEF Restart
  <2>4. settingsCache' \in [Keys -> Pair] /\ isulogger' \in Pair \X Pair
    BY <1>3, Settings
  <2>5. queue' \in Seq(Logs)
    BY <1>3
  <2>6. overlap' \in BOOLEAN
    BY <1>3, Zenon
  <2> QED
    BY <1>1, <1>3, <2>1, <2>2, <2>3, <2>4, <2>5, <2>6 DEF TypesInv, TypeOK, Values, Call, Pair
<1>5. Calm'
  BY <1>2, <1>3, Settings DEF Calm, Reading
<1> QED
  BY <1>2, <1>3, <1>4, <1>5, Settings DEF SettingInv

LEMMA NextSetting == SettingInv /\ [Next]_vars => SettingInv'
  BY SendLogSetting, ReadSetting, CacheSettingRead, InitializeSetting, OtherSetting,
     RestartSetting DEF Next, Step

LEMMA SettingInvariant == Spec => []SettingInv
  BY InitSetting, NextSetting, PTL DEF Spec
-----------------------------------------------------------------------------
(* Theorems about the settings. *)

\* The types hold, and every request goes to a service read from the settings.
THEOREM TypeCorrect == Spec => []TypeOK
<1>1. SettingInv => TypeOK
  BY DEF SettingInv, TypesInv
<1> QED
  BY <1>1, SettingInvariant, PTL

\* The cache follows the table between two /initialize unless a read of a
\* setting met its change.
THEOREM CacheCorrect == Spec => []CacheFollowsTable
<1>1. SettingInv => CacheFollowsTable
  BY Settings DEF SettingInv, Calm, CacheFollowsTable
<1> QED
  BY <1>1, SettingInvariant, PTL

\* The logs of what happened after an /initialize go to the service it named,
\* whatever pair the client held when they were queued.
THEOREM SentCorrect == Spec => []SentToCurrent
<1>1. SettingInv => SentToCurrent
  BY DEF SettingInv, Calm, SentToCurrent
<1> QED
  BY <1>1, SettingInvariant, PTL
-----------------------------------------------------------------------------
(* Where a log is. *)

Once(s) == \A i, j \in DOMAIN s : s[i] = s[j] => i = j
Flown(l) == \E f \in flights : l \in ToSet(f.logs)

LEMMA AppendOnce ==
    ASSUME NEW s \in Seq(Logs), NEW l \in Logs
    PROVE  /\ ToSet(Append(s, l)) = ToSet(s) \cup {l}
           /\ Once(s) /\ l \notin ToSet(s) => Once(Append(s, l))
<1> DEFINE a == Append(s, l)
<1>1. /\ Len(s) \in Nat /\ DOMAIN s = 1..Len(s) /\ DOMAIN a = 1..(Len(s) + 1)
      /\ a[Len(s) + 1] = l /\ \A i \in DOMAIN s : a[i] = s[i]
  OBVIOUS
<1>2. \A i \in DOMAIN a : i \in DOMAIN s \/ i = Len(s) + 1
  BY <1>1
<1>3. DOMAIN s \subseteq DOMAIN a /\ Len(s) + 1 \in DOMAIN a
  BY <1>1
<1> HIDE DEF a
<1>4. ToSet(a) = ToSet(s) \cup {l}
  <2>1. ToSet(a) \subseteq ToSet(s) \cup {l}
    BY <1>1, <1>2 DEF ToSet
  <2>2. ToSet(s) \cup {l} \subseteq ToSet(a)
    BY <1>1, <1>3 DEF ToSet
  <2> QED
    BY <2>1, <2>2
<1>5. ASSUME Once(s), l \notin ToSet(s) PROVE Once(a)
  BY <1>1, <1>2, <1>5 DEF Once, ToSet
<1> QED
  BY <1>4, <1>5 DEF a

LEMMA ConcatOnce ==
    ASSUME NEW s \in Seq(Logs), NEW t \in Seq(Logs)
    PROVE  /\ ToSet(s \o t) = ToSet(s) \cup ToSet(t)
           /\ Once(s) /\ Once(t) /\ ToSet(s) \cap ToSet(t) = {} => Once(s \o t)
<1> DEFINE c == s \o t
<1>1. /\ Len(s) \in Nat /\ Len(t) \in Nat /\ DOMAIN s = 1..Len(s) /\ DOMAIN t = 1..Len(t)
      /\ DOMAIN c = 1..(Len(s) + Len(t))
      /\ \A i \in DOMAIN c : c[i] = IF i <= Len(s) THEN s[i] ELSE t[i - Len(s)]
  OBVIOUS
<1> HIDE DEF c
<1>2. \A i \in DOMAIN c : \/ i \in DOMAIN s /\ c[i] = s[i]
                          \/ i - Len(s) \in DOMAIN t /\ c[i] = t[i - Len(s)]
  BY <1>1
<1>3. /\ \A i \in DOMAIN s : i \in DOMAIN c /\ c[i] = s[i]
      /\ \A i \in DOMAIN t : i + Len(s) \in DOMAIN c /\ c[i + Len(s)] = t[i]
  <2>1. \A i \in DOMAIN s : i \in DOMAIN c /\ c[i] = s[i]
    BY <1>1
  <2>2. ASSUME NEW i \in DOMAIN t PROVE i + Len(s) \in DOMAIN c /\ c[i + Len(s)] = t[i]
    <3>1. i \in Nat /\ i >= 1 /\ i <= Len(t)
      BY <1>1
    <3>2. i + Len(s) \in DOMAIN c /\ ~(i + Len(s) <= Len(s)) /\ (i + Len(s)) - Len(s) = i
      BY <1>1, <3>1
    <3> QED
      BY <1>1, <3>2
  <2> QED
    BY <2>1, <2>2
<1>4. ToSet(c) = ToSet(s) \cup ToSet(t)
  <2>1. ToSet(c) \subseteq ToSet(s) \cup ToSet(t)
    BY <1>2 DEF ToSet
  <2>2. ToSet(s) \cup ToSet(t) \subseteq ToSet(c)
    BY <1>3 DEF ToSet
  <2> QED
    BY <2>1, <2>2
<1>5. ASSUME Once(s), Once(t), ToSet(s) \cap ToSet(t) = {} PROVE Once(c)
  <2>1. \A x \in DOMAIN s, y \in DOMAIN t : s[x] # t[y]
    BY <1>5 DEF ToSet
  <2> SUFFICES ASSUME NEW i \in DOMAIN c, NEW j \in DOMAIN c, c[i] = c[j] PROVE i = j
    BY DEF Once
  <2>2. CASE i \in DOMAIN s /\ c[i] = s[i] /\ j \in DOMAIN s /\ c[j] = s[j]
    BY <1>5, <2>2 DEF Once
  <2>3. CASE /\ i - Len(s) \in DOMAIN t /\ c[i] = t[i - Len(s)]
             /\ j - Len(s) \in DOMAIN t /\ c[j] = t[j - Len(s)]
    <3>1. i - Len(s) = j - Len(s)
      BY <1>5, <2>3 DEF Once
    <3> QED
      BY <1>1, <3>1
  <2> QED
    BY <1>2, <2>1, <2>2, <2>3
<1> QED
  BY <1>4, <1>5 DEF c

LEMMA CountOnce ==
    ASSUME NEW s \in Seq(Logs), Once(s), NEW l
    PROVE  Cardinality({i \in DOMAIN s : s[i] = l}) = IF l \in ToSet(s) THEN 1 ELSE 0
<1>1. CASE l \in ToSet(s)
  <2>1. PICK i \in DOMAIN s : s[i] = l
    BY <1>1 DEF ToSet
  <2>2. {j \in DOMAIN s : s[j] = l} = {i}
    BY <2>1 DEF Once
  <2> QED
    BY <1>1, <2>2, FS_Singleton
<1>2. CASE l \notin ToSet(s)
  <2>1. {j \in DOMAIN s : s[j] = l} = {}
    BY <1>2 DEF ToSet
  <2> QED
    BY <1>2, <2>1, FS_EmptySet
<1> QED
  BY <1>1, <1>2

\* Every log whose call has ended is in one place; of the requests under way
\* no two have a log in common.
OnceInv ==
    /\ TypesInv
    /\ Once(queue) /\ Once(delivered) /\ \A f \in flights : Once(f.logs)
    /\ \A f, g \in flights : ToSet(f.logs) \cap ToSet(g.logs) = {} \/ f = g
    /\ \A l \in Logs :
         /\ l \in ToSet(queue) => l \notin ToSet(delivered) \cup lost /\ ~Flown(l)
         /\ l \in ToSet(delivered) => l \notin lost /\ ~Flown(l)
         /\ l \in lost => ~Flown(l)
         /\ call[l].pc = "end"
             <=> l \in ToSet(queue) \cup ToSet(delivered) \cup lost \/ Flown(l)
         /\ call[l].event = "committed" /\ call[l].awaited => call[l].pc = "end"

LEMMA OncePlaces ==
    ASSUME OnceInv, NEW l \in Logs
    PROVE  Places(l) = IF call[l].pc = "end" THEN 1 ELSE 0
<1>1. queue \in Seq(Logs) /\ delivered \in Seq(Logs)
  BY DEF OnceInv, TypesInv
<1>2. Cardinality({i \in DOMAIN queue : queue[i] = l}) = IF l \in ToSet(queue) THEN 1 ELSE 0
  BY <1>1, CountOnce DEF OnceInv
<1>3. Cardinality({i \in DOMAIN delivered : delivered[i] = l})
        = IF l \in ToSet(delivered) THEN 1 ELSE 0
  BY <1>1, CountOnce DEF OnceInv
<1>4. Cardinality({f \in flights : l \in ToSet(f.logs)}) = IF Flown(l) THEN 1 ELSE 0
  <2>1. CASE Flown(l)
    <3>1. PICK f \in flights : l \in ToSet(f.logs)
      BY <2>1 DEF Flown
    <3>2. {g \in flights : l \in ToSet(g.logs)} = {f}
      BY <3>1 DEF OnceInv
    <3> QED
      BY <2>1, <3>2, FS_Singleton
  <2>2. CASE ~Flown(l)
    <3>1. {g \in flights : l \in ToSet(g.logs)} = {}
      BY <2>2 DEF Flown
    <3> QED
      BY <2>2, <3>1, FS_EmptySet
  <2> QED
    BY <2>1, <2>2
<1>5. Places(l) = (IF l \in ToSet(queue) THEN 1 ELSE 0) + (IF l \in ToSet(delivered) THEN 1 ELSE 0)
                  + (IF l \in lost THEN 1 ELSE 0) + (IF Flown(l) THEN 1 ELSE 0)
  BY <1>2, <1>3, <1>4 DEF Places
<1> QED
  BY <1>5 DEF OnceInv

LEMMA InitOnce == Init => OnceInv
<1> SUFFICES ASSUME Init PROVE OnceInv
  OBVIOUS
<1>1. TypesInv
  BY InitSetting DEF SettingInv
<1>2. queue = <<>> /\ delivered = <<>> /\ flights = {} /\ lost = {} /\ DOMAIN <<>> = {}
  BY DEF Init
<1>3. Once(queue) /\ Once(delivered) /\ ToSet(queue) = {} /\ ToSet(delivered) = {}
  BY <1>2 DEF Once, ToSet
<1>4. \A l \in Logs : call[l].pc = "none" /\ call[l].event = "none" /\ ~Flown(l)
  BY <1>2 DEF Init, NoCall, Flown
<1> QED
  BY <1>1, <1>2, <1>3, <1>4 DEF OnceInv

\* Nothing moves, and no call ends.
LEMMA StillOnce ==
    ASSUME OnceInv, TypesInv', UNCHANGED <<queue, flights, delivered, lost>>,
           \A l \in Logs : /\ call'[l].pc = "end" <=> call[l].pc = "end"
                           /\ call'[l].event = "committed" /\ call'[l].awaited
                                => call'[l].pc = "end"
    PROVE  OnceInv'
  BY DEF OnceInv, Once, Flown

\* The call of log l ends.
LEMMA EndOnce ==
    ASSUME OnceInv, TypesInv', NEW l \in Logs, NEW r \in Call, call[l].pc # "end", r.pc = "end",
           call' = [call EXCEPT ![l] = r], queue' = Append(queue, l),
           UNCHANGED <<flights, delivered, lost>>
    PROVE  OnceInv'
<1>1. queue \in Seq(Logs) /\ call \in [Logs -> Call]
  BY TypesInvParts DEF OnceInv
<1>2. call'[l] = r /\ \A m \in Logs \ {l} : call'[m] = call[m]
  BY <1>1
<1>3. l \notin ToSet(queue) \cup ToSet(delivered) \cup lost /\ ~Flown(l)
  BY DEF OnceInv
<1>4. Once(queue') /\ ToSet(queue') = ToSet(queue) \cup {l}
  BY <1>1, <1>3, AppendOnce DEF OnceInv
<1>5. ToSet(delivered') = ToSet(delivered) /\ \A m : Flown(m)' <=> Flown(m)
  BY DEF Flown
<1>6. \A m \in Logs :
         /\ m \in ToSet(queue') => m \notin ToSet(delivered') \cup lost' /\ ~Flown(m)'
         /\ m \in ToSet(delivered') => m \notin lost' /\ ~Flown(m)'
         /\ m \in lost' => ~Flown(m)'
         /\ call'[m].pc = "end"
             <=> m \in ToSet(queue') \cup ToSet(delivered') \cup lost' \/ Flown(m)'
         /\ call'[m].event = "committed" /\ call'[m].awaited => call'[m].pc = "end"
  <2> SUFFICES ASSUME NEW m \in Logs
               PROVE
         /\ m \in ToSet(queue') => m \notin ToSet(delivered') \cup lost' /\ ~Flown(m)'
         /\ m \in ToSet(delivered') => m \notin lost' /\ ~Flown(m)'
         /\ m \in lost' => ~Flown(m)'
         /\ call'[m].pc = "end"
             <=> m \in ToSet(queue') \cup ToSet(delivered') \cup lost' \/ Flown(m)'
         /\ call'[m].event = "committed" /\ call'[m].awaited => call'[m].pc = "end"
    OBVIOUS
  <2>1. CASE m = l
    BY <1>2, <1>3, <1>4, <1>5, <2>1
  <2>2. CASE m # l
    BY <1>2, <1>4, <1>5, <2>2 DEF OnceInv
  <2> QED
    BY <2>1, <2>2
<1>7. Once(delivered') /\ \A f \in flights' : Once(f.logs)
  BY DEF OnceInv, Once
<1>8. \A f, g \in flights' : ToSet(f.logs) \cap ToSet(g.logs) = {} \/ f = g
  BY DEF OnceInv
<1> QED
  BY <1>4, <1>6, <1>7, <1>8 DEF OnceInv, Once

LEMMA FlushOnce == ASSUME OnceInv, TypesInv', Flush PROVE OnceInv'
<1> DEFINE g == [logs |-> queue, to |-> isulogger]
<1>1. flights' = flights \cup {g} /\ queue' = <<>> /\ UNCHANGED <<delivered, lost, call>>
  BY DEF Flush
<1>2. g.logs = queue /\ queue \in Seq(Logs) /\ ToSet(queue) \subseteq Logs
  BY DEF OnceInv, TypesInv, ToSet
<1>3. \A l \in Logs : Flown(l)' <=> Flown(l) \/ l \in ToSet(queue)
  BY <1>1, <1>2 DEF Flown
<1>4. Once(queue') /\ ToSet(queue') = {} /\ ToSet(delivered') = ToSet(delivered)
  BY <1>1 DEF Once, ToSet
<1>5. \A f \in flights : ToSet(f.logs) \cap ToSet(queue) = {}
  BY <1>2 DEF OnceInv, Flown
<1> HIDE DEF g
<1>6. \A f, h \in flights' : ToSet(f.logs) \cap ToSet(h.logs) = {} \/ f = h
  BY <1>1, <1>2, <1>5 DEF OnceInv
<1>7. Once(delivered') /\ \A f \in flights' : Once(f.logs)
  BY <1>1, <1>2 DEF OnceInv, Once
<1>8. \A m \in Logs :
         /\ m \in ToSet(delivered') => m \notin lost' /\ ~Flown(m)'
         /\ m \in lost' => ~Flown(m)'
         /\ call'[m].pc = "end"
             <=> m \in ToSet(queue') \cup ToSet(delivered') \cup lost' \/ Flown(m)'
         /\ call'[m].event = "committed" /\ call'[m].awaited => call'[m].pc = "end"
  BY <1>1, <1>3, <1>4 DEF OnceInv
<1> QED
  BY <1>4, <1>6, <1>7, <1>8 DEF OnceInv, Once

LEMMA FlightOnce ==
    ASSUME OnceInv, TypesInv', NEW f \in flights, Answered(f) \/ RequestFails(f)
    PROVE  OnceInv'
<1>1. /\ f.logs \in Seq(Logs) /\ delivered \in Seq(Logs) /\ ToSet(f.logs) \subseteq Logs
      /\ Once(f.logs)
  BY DEF OnceInv, TypesInv, Flight, ToSet
<1>2. flights' = flights \ {f} /\ UNCHANGED <<queue, call>>
  BY DEF Answered, RequestFails
<1>3. \A l \in Logs : Flown(l)' <=> Flown(l) /\ l \notin ToSet(f.logs)
  BY <1>2 DEF OnceInv, Flown
<1>4. \A l \in ToSet(f.logs) : l \notin ToSet(queue) \cup ToSet(delivered) \cup lost
  BY <1>1 DEF OnceInv, Flown
<1>5. ToSet(queue') = ToSet(queue) /\ Once(queue') /\ \A h \in flights' : Once(h.logs)
  BY <1>2 DEF OnceInv, Once
<1>6. \A g, h \in flights' : ToSet(g.logs) \cap ToSet(h.logs) = {} \/ g = h
  BY <1>2 DEF OnceInv
<1>7. \/ /\ Once(delivered') /\ lost' = lost
         /\ ToSet(delivered') = ToSet(delivered) \cup ToSet(f.logs)
      \/ /\ Once(delivered') /\ ToSet(delivered') = ToSet(delivered)
         /\ lost' = lost \cup ToSet(f.logs)
  <2>1. CASE Answered(f)
    <3>1. delivered' = delivered \o f.logs /\ lost' = lost
      BY <2>1 DEF Answered
    <3>2. ToSet(delivered) \cap ToSet(f.logs) = {}
      BY <1>4
    <3>3. Once(delivered \o f.logs)
      BY <1>1, <3>2, ConcatOnce DEF OnceInv
    <3> QED
      BY <1>1, <3>1, <3>3, ConcatOnce
  <2>2. CASE RequestFails(f)
    BY <2>2 DEF RequestFails, OnceInv
  <2> QED
    BY <2>1, <2>2
<1>8. \A l \in Logs : l \in ToSet(f.logs) => Flown(l)
  BY DEF Flown
<1>9. \A m \in Logs :
         /\ m \in ToSet(queue') => m \notin ToSet(delivered') \cup lost' /\ ~Flown(m)'
         /\ m \in ToSet(delivered') => m \notin lost' /\ ~Flown(m)'
         /\ m \in lost' => ~Flown(m)'
         /\ call'[m].pc = "end"
             <=> m \in ToSet(queue') \cup ToSet(delivered') \cup lost' \/ Flown(m)'
         /\ call'[m].event = "committed" /\ call'[m].awaited => call'[m].pc = "end"
  BY <1>2, <1>3, <1>4, <1>5, <1>7, <1>8 DEF OnceInv
<1> QED
  BY <1>5, <1>6, <1>7, <1>9 DEF OnceInv, Once

LEMMA RestartOnce == ASSUME OnceInv, TypesInv', Restart PROVE OnceInv'
<1>1. /\ queue' = <<>> /\ flights' = {} /\ delivered' = delivered
      /\ lost' = lost \cup ToSet(queue) \cup UNION {ToSet(f.logs) : f \in flights}
  BY DEF Restart
<1>2. \A l \in Logs : l \in lost' <=> l \in lost \cup ToSet(queue) \/ Flown(l)
  BY <1>1 DEF Flown
<1>3. Once(queue') /\ ToSet(queue') = {} /\ ToSet(delivered') = ToSet(delivered)
  BY <1>1 DEF Once, ToSet
<1>4. \A l : ~Flown(l)'
  BY <1>1 DEF Flown
<1>5. \A l \in Logs : /\ call'[l].pc = "end" <=> call[l].pc = "end"
                      /\ call'[l].event = "committed" /\ call'[l].awaited
                           => call'[l].pc = "end"
  <2> SUFFICES ASSUME NEW l \in Logs
               PROVE  /\ call'[l].pc = "end" <=> call[l].pc = "end"
                      /\ call'[l].event = "committed" /\ call'[l].awaited
                           => call'[l].pc = "end"
    OBVIOUS
  <2> DEFINE c == IF call[l].pc \in {"ask", "read"} THEN Over(call[l], "failed") ELSE call[l]
  <2>1. call[l] \in Call
    BY TypesInvParts DEF OnceInv
  <2>2. /\ c \in Call /\ (c.pc = "end" <=> call[l].pc = "end")
        /\ c.event = call[l].event /\ c.awaited = call[l].awaited
    BY <2>1, OverCall
  <2>3. call'[l] = [c EXCEPT !.event = IF c.event = "open" THEN "rolledback" ELSE c.event]
    BY DEF Restart
  <2>4. call[l].event = "committed" /\ call[l].awaited => call[l].pc = "end"
    BY DEF OnceInv
  <2> HIDE DEF c
  <2>5. call'[l].pc = c.pc /\ call'[l].awaited = c.awaited
        /\ (call'[l].event = "committed" => c.event = "committed")
    BY <2>2, <2>3 DEF Call
  <2> QED
    BY <2>2, <2>4, <2>5
<1>6. \A m \in Logs :
         /\ m \in ToSet(delivered') => m \notin lost'
         /\ call'[m].pc = "end" <=> m \in ToSet(delivered') \cup lost'
  BY <1>2, <1>3, <1>5 DEF OnceInv
<1>7. Once(delivered') /\ \A f \in flights' : Once(f.logs)
  BY <1>1 DEF OnceInv, Once
<1> QED
  BY <1>1, <1>3, <1>4, <1>5, <1>6, <1>7 DEF OnceInv, Once

\* GoOn ends the call or leaves all logs where they are.
LEMMA GoOnOnce ==
    ASSUME OnceInv, TypesInv', NEW l \in Logs, NEW c \in Call, NEW key \in Keys,
           NEW endpoint \in Values, NEW cache \in [Keys -> Pair],
           GoOn(l, c, key, endpoint, cache), call[l].pc # "end", c.event # "committed" \/ ~c.awaited,
           UNCHANGED <<flights, delivered, lost>>
    PROVE  OnceInv'
<1>1. call \in [Logs -> Call]
  BY TypesInvParts DEF OnceInv
<1>2. ASSUME NEW k \in Keys, NEW e \in Values, Asks(l, c, k, e) PROVE OnceInv'
  <2> DEFINE r == [c EXCEPT !.pc = "ask", !.key = k, !.endpoint = e]
  <2>1. r.pc = "ask" /\ r.event = c.event /\ r.awaited = c.awaited
    BY DEF Call
  <2>2. call' = [call EXCEPT ![l] = r] /\ UNCHANGED queue
    BY <1>2 DEF Asks
  <2> HIDE DEF r
  <2>3. \A m \in Logs : /\ call'[m].pc = "end" <=> call[m].pc = "end"
                        /\ call'[m].event = "committed" /\ call'[m].awaited
                             => call'[m].pc = "end"
    BY <1>1, <2>1, <2>2 DEF OnceInv
  <2> QED
    BY <2>2, <2>3, StillOnce
<1>3. ASSUME NEW e \in Values, NEW a \in Values, Ends(l, c, e, a) PROVE OnceInv'
  <2>1. Over(c, "end") \in Call /\ Over(c, "end").pc = "end"
    BY OverCall
  <2> QED
    BY <1>3, <2>1, EndOnce DEF Ends
<1> QED
  BY <1>2, <1>3, GoOnCases, Settings

LEMMA NextOnce == OnceInv /\ SettingInv /\ SettingInv' /\ [Next]_vars => OnceInv'
<1> SUFFICES ASSUME OnceInv, SettingInv, TypesInv', [Next]_vars PROVE OnceInv'
  BY DEF SettingInv
<1>1. /\ call \in [Logs -> Call] /\ settingsCache \in [Keys -> Pair]
      /\ setting \in [Keys -> Values] /\ ready \in Values
  BY Typed
<1>2. \A l \in Logs : call[l].event = "committed" /\ call[l].awaited => call[l].pc = "end"
  BY DEF OnceInv
<1>3. ASSUME NEW l \in Logs, NEW r, call' = [call EXCEPT ![l] = r],
             r.pc = "end" <=> call[l].pc = "end",
             r.event = "committed" /\ r.awaited => r.pc = "end",
             UNCHANGED <<queue, flights, delivered, lost>>
      PROVE  OnceInv'
  <2>1. \A m \in Logs : /\ call'[m].pc = "end" <=> call[m].pc = "end"
                        /\ call'[m].event = "committed" /\ call'[m].awaited
                             => call'[m].pc = "end"
    BY <1>1, <1>2, <1>3
  <2> QED
    BY <1>3, <2>1, StillOnce
<1>4. ASSUME NEW l \in Logs, NEW awaited \in BOOLEAN, sendLog(l, awaited) PROVE OnceInv'
  <2> DEFINE c == [NoCall EXCEPT !.born = ready, !.awaited = awaited, !.event = "open"]
  <2>1. /\ GoOn(l, c, LOG_ENDPOINT, 0, settingsCache) /\ call[l].pc = "none"
        /\ UNCHANGED <<flights, delivered, lost>>
    BY <1>4 DEF sendLog
  <2>2. c \in Call /\ c.event = "open"
    BY <1>1, Settings DEF Call
  <2>3. LOG_ENDPOINT \in Keys /\ 0 \in Values
    BY Settings
  <2> HIDE DEF c
  <2> QED
    BY <1>1, <2>1, <2>2, <2>3, GoOnOnce
<1>5. ASSUME NEW l \in Logs, SettingRead(l) PROVE OnceInv'
  <2> DEFINE cache == [settingsCache EXCEPT ![call[l].key] = call[l].val]
             given == IF call[l].key = LOG_ENDPOINT THEN call[l].val ELSE call[l].endpoint
  <2>1. /\ GoOn(l, call[l], call[l].key, given, cache) /\ call[l].pc = "read"
        /\ UNCHANGED <<flights, delivered, lost>>
    BY <1>5 DEF SettingRead
  <2>2. call[l] \in Call /\ call[l].key \in Keys /\ given \in Values /\ cache \in [Keys -> Pair]
    BY <1>1, Settings DEF Call
  <2>3. call[l].event # "committed" \/ ~call[l].awaited
    BY <1>2, <2>1
  <2> HIDE DEF cache, given
  <2> QED
    BY <2>1, <2>2, <2>3, GoOnOnce
<1>6. ASSUME NEW l \in Logs, getSetting(l) PROVE OnceInv'
  <2> DEFINE r == [call[l] EXCEPT !.pc = "read", !.val = setting[call[l].key]]
  <2>1. r.pc = "read" /\ r.event = call[l].event /\ r.awaited = call[l].awaited
    BY <1>1 DEF Call
  <2>2. /\ call' = [call EXCEPT ![l] = r] /\ call[l].pc = "ask"
        /\ UNCHANGED <<queue, flights, delivered, lost>>
    BY <1>1, <1>6 DEF getSetting, clientVars
  <2> HIDE DEF r
  <2> QED
    BY <1>2, <1>3, <2>1, <2>2
<1>7. ASSUME NEW l \in Logs, SettingFails(l) PROVE OnceInv'
  <2> DEFINE o == Over(call[l], "failed")
             r == [o EXCEPT !.event = IF call[l].awaited THEN "rolledback" ELSE call[l].event]
  <2>1. /\ o \in Call /\ o.pc = "failed" /\ o.awaited = call[l].awaited
        /\ call[l].event \in {"none", "open", "committed", "rolledback"}
    BY <1>1, OverCall DEF Call
  <2>2. /\ call' = [call EXCEPT ![l] = r] /\ call[l].pc = "ask"
        /\ UNCHANGED <<queue, flights, delivered, lost>>
    BY <1>1, <1>7 DEF SettingFails, clientVars
  <2> HIDE DEF o
  <2>3. r.pc = "failed" /\ ~(r.event = "committed" /\ r.awaited)
    BY <2>1 DEF Call
  <2> HIDE DEF r
  <2> QED
    BY <1>3, <2>2, <2>3
<1>8. ASSUME NEW l \in Logs, Commit(l) PROVE OnceInv'
  <2>1. PICK e \in {"committed", "rolledback"} : call' = [call EXCEPT ![l].event = e]
    BY <1>8 DEF Commit
  <2> DEFINE r == [call[l] EXCEPT !.event = e]
  <2>2. r.pc = call[l].pc /\ r.awaited = call[l].awaited
    BY <1>1 DEF Call
  <2>3. /\ call' = [call EXCEPT ![l] = r] /\ (call[l].awaited => call[l].pc = "end")
        /\ UNCHANGED <<queue, flights, delivered, lost>>
    BY <1>1, <1>8, <2>1 DEF Commit, clientVars
  <2> HIDE DEF r
  <2> QED
    BY <1>3, <2>2, <2>3
<1>9. CASE Initialize \/ setSetting \/ setSettingFails \/ UNCHANGED vars
  <2>1. UNCHANGED <<queue, flights, delivered, lost, call>>
    BY <1>9 DEF Initialize, setSetting, setSettingFails, clientVars, vars
  <2> QED
    BY <1>2, <2>1, StillOnce
<1> QED
  BY <1>4, <1>5, <1>6, <1>7, <1>8, <1>9, FlushOnce, FlightOnce, RestartOnce DEF Next, Step

LEMMA OnceInvariant == Spec => []OnceInv
  BY InitOnce, NextOnce, SettingInvariant, PTL DEF Spec
-----------------------------------------------------------------------------
(* Theorems about the logs. *)

\* A log that was queued is in one place and once, whatever requests fail and
\* however often the process ends; no other log is anywhere.
THEOREM OnceCorrect == Spec => []LogsOnce
<1>1. OnceInv => LogsOnce
  BY OncePlaces DEF LogsOnce
<1> QED
  BY <1>1, OnceInvariant, PTL

\* A committed order has its log on the way.
THEOREM CommittedCorrect == Spec => []CommittedIsLogged
<1>1. OnceInv => CommittedIsLogged
  BY OncePlaces DEF CommittedIsLogged, OnceInv
<1> QED
  BY <1>1, OnceInvariant, PTL
=============================================================================
