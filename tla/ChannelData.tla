----------------------------- MODULE ChannelData -----------------------------
(***************************************************************************)
(* What the market keeps of a Telegram channel: its admins, its statistics *)
(* and its photo.  The userbot's update handler writes all three; two more *)
(* goroutines of the userbot fetch the statistics again when an admin has  *)
(* asked for it, and the market's handlers of such requests write the time *)
(* of the request into the same JSON document, which they read and write   *)
(* back as a whole.  Nothing locks a row across two statements.            *)
(*                                                                         *)
(* One channel is modelled: no operation works on two.  The stream between *)
(* market and userbot is EventStream's subject and loses nothing here; the *)
(* events of a batch are handled and acknowledged one at a time.           *)
(***************************************************************************)
EXTENDS Naturals, FiniteSets

CONSTANTS
    Users,       \* users of the market
    Founder,     \* the first admin of the channel
    Refreshes,   \* requests for fresh statistics
    None,        \* a goroutine of the worker has no request
    Cooldown,    \* refreshStatsCooldown, in ticks of the clock
    MaxClock,    \* bound: the last tick of the clock
    MaxVersion,  \* bound: versions of the statistics at Telegram
    MaxChanges,  \* bound: changes of the admins at Telegram
    Scenes,      \* bound: the sets of activities that go on in one behaviour
    Faults,      \* the kinds of faults that may happen
    MaxFaults    \* bound: faults in a behaviour

FaultKinds ==
    {"crash",    \* the userbot stops anywhere and restarts
     "channel",  \* the channel cannot be read from Telegram, or not written
     "fetch",    \* the statistics cannot be fetched or stored
     "admins",   \* the admins cannot be read, or one of the statements fails
     "photo",    \* the photo cannot be loaded or written
     "lookup",   \* the channel of an event cannot be read from the database
     "push"}     \* the event of a request cannot be added to the stream

Activities ==
    {"time",     \* the clock ticks
     "refresh",  \* admins ask for fresh statistics
     "grow",     \* the statistics at Telegram grow
     "update",   \* the admins at Telegram change
     "listing",  \* users list the channel (Catalogue)
     "deal"}     \* and make deals on the listing

ASSUME TimeAssumption == Cooldown \in Nat /\ MaxClock \in Nat \ {0}
ASSUME BoundsAssumption ==
    MaxVersion \in Nat \ {0} /\ MaxChanges \in Nat /\ MaxFaults \in Nat
ASSUME SetsAssumption ==
    /\ Founder \in Users /\ None \notin Refreshes
    /\ Scenes \subseteq SUBSET Activities /\ Faults \subseteq FaultKinds

(* RunChannelUpdateStatsWorker's two consumers of the stream, and all the    *)
(* goroutines that call UpdateChannelStats.                                  *)
Consumers == {"reader", "claimer"}
Fetchers == Consumers \cup {"update"}

ASSUME NamesAssumption == Fetchers \cap Refreshes = {}

VARIABLES
    scene,     \* what goes on in this behaviour
    canView,   \* can_view_stats: the userbot may read the statistics
    clock,     \* time.Now
    telegram,  \* the channel at Telegram: its admins and statistics
    notice,    \* an UpdateChannel is on its way to the userbot
    sync,      \* handleChannelUpdate: where it is, and the admins to insert
    admins,    \* market.channel_admin
    photo,     \* the photo is in market.channel
    stats,     \* market.channel_stats: the version kept, and requested_at
    fetch,     \* the version each fetcher has fetched, 0 for none
    stream,    \* requests in the stream not delivered, and those not acknowledged
    job,       \* the event each consumer is at, and whether it is still to be served
    refresh,   \* the market's handlers of refresh requests
    missed,    \* history: the latest update was given up or lost
    stored,    \* history: the highest version stored
    crossed,   \* history: who has seen another write since it read
    raced,     \* history: requests let through beside one not yet written
    dropped,   \* history: requests acknowledged unserved, on an error
    faults     \* faults so far

worldVars == <<scene, canView, clock, telegram>>
syncVars == <<notice, sync, admins, photo, missed>>
statsVars == <<stats, fetch, stored, crossed>>
streamVars == <<stream, job, dropped>>
refreshVars == <<refresh, raced>>
channelVars == <<worldVars, syncVars, statsVars, streamVars, refreshVars, faults>>

-----------------------------------------------------------------------------
IdleSync == [pc |-> "idle", todo |-> {}]
Idle == [event |-> None, todo |-> FALSE]
NewRefresh == [pc |-> "start", now |-> 0, version |-> 0, want |-> 0]

(* The userbot has seen the channel once: its first admin has invited it.    *)
ChannelInit ==
    /\ scene \in Scenes /\ canView \in IF "refresh" \in scene THEN BOOLEAN ELSE {FALSE}
    /\ clock = 1
    /\ telegram = [admins |-> {Founder}, version |-> 1, changes |-> 0]
    /\ admins = {Founder}
    /\ notice = FALSE /\ sync = IdleSync /\ photo = TRUE /\ missed = FALSE
    /\ stats = [version |-> 0, at |-> 0] /\ stored = 0 /\ crossed = {}
    /\ fetch = [f \in Fetchers |-> 0]
    /\ stream = [fresh |-> {}, pending |-> {}] /\ dropped = {}
    /\ job = [f \in Consumers |-> Idle]
    /\ refresh = [r \in Refreshes |-> NewRefresh] /\ raced = {}
    /\ faults = 0

Fault(f) == f \in Faults /\ faults < MaxFaults /\ faults' = faults + 1

-----------------------------------------------------------------------------
Tick ==
    /\ "time" \in scene /\ clock < MaxClock /\ clock' = clock + 1
    /\ UNCHANGED <<scene, canView, telegram, syncVars, statsVars, streamVars,
                   refreshVars, faults>>

(* Telegram: the owner appoints and dismisses admins, the statistics grow.   *)
ChangeAdmins ==
    /\ "update" \in scene /\ telegram.changes < MaxChanges
    /\ \E A \in SUBSET Users \ {{}, telegram.admins} :
        telegram' = [telegram EXCEPT !.admins = A, !.changes = @ + 1]
    /\ notice' = TRUE
    /\ UNCHANGED <<scene, canView, clock, sync, admins, photo, missed,
                   statsVars, streamVars, refreshVars, faults>>

StatisticsGrow ==
    /\ "grow" \in scene /\ telegram.version < MaxVersion
    /\ telegram' = [telegram EXCEPT !.version = @ + 1]
    /\ UNCHANGED <<scene, canView, clock, syncVars, statsVars, streamVars, refreshVars,
                   faults>>

-----------------------------------------------------------------------------
(* UpsertChannelStats: the whole document is replaced.  Whoever else has     *)
(* read and not yet written is crossed.                                      *)
UpsertChannelStats(self, version, at) ==
    /\ stats' = [version |-> version, at |-> at]
    /\ crossed' = (crossed \cup {f \in Fetchers : fetch[f] # 0}
                           \cup {r \in Refreshes : refresh[r].pc = "write"}) \ {self}

(* UpdateChannelStats: what Telegram has now, its graphs included, ...       *)
Fetch(f) ==
    /\ fetch[f] = 0 /\ fetch' = [fetch EXCEPT ![f] = telegram.version]
    /\ UNCHANGED <<stats, stored, crossed>>

(* ... is stored with the time of the store, ...                             *)
Store(f) ==
    /\ fetch[f] # 0 /\ fetch' = [fetch EXCEPT ![f] = 0]
    /\ UpsertChannelStats(f, fetch[f], clock)
    /\ stored' = IF fetch[f] > stored THEN fetch[f] ELSE stored

(* ... or an error ends it.                                                  *)
Abandon(f) ==
    /\ fetch' = [fetch EXCEPT ![f] = 0] /\ crossed' = crossed \ {f}
    /\ UNCHANGED <<stats, stored>>

-----------------------------------------------------------------------------
(* handleChannelUpdate gives up: nothing calls it again for this update.     *)
GiveUp(f) == Fault(f) /\ sync' = IdleSync /\ missed' = TRUE

(* handleChannelUpdate: the row of the channel is written without a photo.   *)
UpsertChannel ==
    /\ sync.pc = "idle" /\ notice /\ notice' = FALSE
    /\ \/ /\ photo' = FALSE
          /\ sync' = [sync EXCEPT !.pc = IF canView THEN "stats" ELSE "admins"]
          /\ UNCHANGED <<missed, faults>>
       \/ GiveUp("channel") /\ UNCHANGED photo
    /\ UNCHANGED <<worldVars, admins, statsVars, streamVars, refreshVars>>

UpdateStats ==
    /\ sync.pc = "stats"
    /\ \/ Fetch("update") /\ UNCHANGED <<sync, missed, faults>>
       \/ Store("update") /\ sync' = [sync EXCEPT !.pc = "admins"]
                          /\ UNCHANGED <<missed, faults>>
       \/ Abandon("update") /\ GiveUp("fetch")
    /\ UNCHANGED <<worldVars, notice, admins, photo, streamVars, refreshVars>>

(* syncChannelAdmins: the admins are read, the rows of the channel deleted,  *)
(* ...  (The request names no earlier answer, so Telegram never answers      *)
(* "not modified".)                                                          *)
DeleteChannelAdmins ==
    /\ sync.pc = "admins"
    /\ \/ /\ admins' = {}
          /\ sync' = [pc |-> "insert", todo |-> telegram.admins]
          /\ UNCHANGED <<missed, faults>>
       \/ GiveUp("admins") /\ UNCHANGED admins
    /\ UNCHANGED <<worldVars, notice, photo, statsVars, streamVars, refreshVars>>

(* Mutant: the first admin is the only one inserted.                         *)
UpsertChannelOwner ==
    /\ sync.pc = "insert" /\ sync' = [pc |-> "photo", todo |-> {}]
    /\ \E u \in sync.todo : admins' = admins \cup {u}
    /\ UNCHANGED <<worldVars, notice, photo, missed, statsVars, streamVars,
                   refreshVars, faults>>

(* ... and inserted anew one by one.                                         *)
UpsertChannelAdmin ==
    /\ sync.pc = "insert"
    /\ \/ \E u \in sync.todo :
            /\ admins' = admins \cup {u}
            /\ sync' = [sync EXCEPT !.todo = @ \ {u}]
            /\ UNCHANGED <<missed, faults>>
       \/ /\ sync.todo = {} /\ sync' = [sync EXCEPT !.pc = "photo"]
          /\ UNCHANGED <<admins, missed, faults>>
       \/ sync.todo # {} /\ GiveUp("admins") /\ UNCHANGED admins
    /\ UNCHANGED <<worldVars, notice, photo, statsVars, streamVars, refreshVars>>

(* updateChannelPhotoFromTelegram, whose errors are only logged.             *)
UpdateChannelPhoto ==
    /\ sync.pc = "photo" /\ sync' = IdleSync
    /\ \/ photo' = TRUE /\ missed' = FALSE /\ UNCHANGED faults
       \/ Fault("photo") /\ missed' = TRUE /\ UNCHANGED photo
    /\ UNCHANGED <<worldVars, notice, admins, statsVars, streamVars,
                   refreshVars>>

-----------------------------------------------------------------------------
(* The reader takes what is new, the claimer what has been delivered and not *)
(* acknowledged for a while, the reader at work on it or not.                *)
Offered(f) == IF f = "reader" THEN stream.fresh ELSE stream.pending

TakeEvent(f) ==
    /\ job[f] = Idle
    /\ \E r \in Offered(f) :
        /\ job' = [job EXCEPT ![f] = [event |-> r, todo |-> canView]]
        /\ stream' = [fresh |-> stream.fresh \ {r}, pending |-> stream.pending \cup {r}]
    /\ UNCHANGED <<worldVars, syncVars, statsVars, dropped, refreshVars, faults>>

(* processChannelUpdateStatsEvents: an event whose channel cannot be looked  *)
(* up is acknowledged all the same.                                          *)
DropEvent(f) ==
    /\ job[f] = Idle /\ Fault("lookup")
    /\ \E r \in Offered(f) :
        /\ stream' = [fresh |-> stream.fresh \ {r}, pending |-> stream.pending \ {r}]
        /\ dropped' = dropped \cup {r}
    /\ UNCHANGED <<worldVars, syncVars, statsVars, job, refreshVars>>

(* The statistics are fetched and stored, if the userbot may read them.  An  *)
(* event whose statistics cannot be had stays pending.                       *)
ServeEvent(f) ==
    /\ job[f].todo
    /\ \/ Fetch(f) /\ UNCHANGED <<job, faults>>
       \/ Store(f) /\ job' = [job EXCEPT ![f].todo = FALSE] /\ UNCHANGED faults
       \/ Abandon(f) /\ job' = [job EXCEPT ![f] = Idle] /\ Fault("fetch")
    /\ UNCHANGED <<worldVars, syncVars, stream, dropped, refreshVars>>

Acknowledge(f) ==
    /\ stream' = [stream EXCEPT !.pending = @ \ {job[f].event}]
    /\ job' = [job EXCEPT ![f] = Idle]

(* Mutant: an event is acknowledged whether or not it was served.            *)
FinishEventAlways(f) ==
    /\ job[f] # Idle /\ fetch[f] = 0
    /\ Acknowledge(f) /\ photo' = TRUE
    /\ UNCHANGED <<worldVars, notice, sync, admins, missed, statsVars, dropped,
                   refreshVars, faults>>

(* Then the photo, and the event is acknowledged.                            *)
FinishEvent(f) ==
    /\ job[f] # Idle /\ ~job[f].todo
    /\ Acknowledge(f)
    /\ \/ photo' = TRUE /\ UNCHANGED faults
       \/ Fault("photo") /\ UNCHANGED photo
    /\ UNCHANGED <<worldVars, notice, sync, admins, missed, statsVars, dropped,
                   refreshVars>>

(* SetState: Telegram's current state replaces the one kept, so that updates *)
(* from before are not asked for.                                            *)
SetState == notice' = FALSE

(* A userbot that starts stores that state, unless it cannot be had or not   *)
(* be stored.  Pending events are kept.                                      *)
RestartUserbot ==
    /\ Fault("crash")
    /\ SetState \/ notice' = notice
    /\ missed' = (missed \/ notice # notice' \/ sync # IdleSync)
    /\ sync' = IdleSync /\ fetch' = [f \in Fetchers |-> 0]
    /\ job' = [f \in Consumers |-> Idle] /\ crossed' = crossed \ Fetchers
    /\ UNCHANGED <<worldVars, admins, photo, stats, stored, stream, dropped,
                   refreshVars>>

-----------------------------------------------------------------------------
IsChannelAdmin(u) == u \in admins

(* Mutant: the cooldown ends a tick early.                                   *)
CooledDownEarly(now) == stats.at = 0 \/ now + 1 >= stats.at + Cooldown

(* handleRawStatsRequestedAt.                                                *)
CooledDown(now) == stats.at = 0 \/ now >= stats.at + Cooldown

(* RequestStatsRefresh: only for an admin, and not within the cooldown.      *)
CheckRefresh(r) ==
    /\ "refresh" \in scene /\ refresh[r].pc = "start"
    /\ \E u \in Users :
        \/ /\ IsChannelAdmin(u) /\ CooledDown(clock)
           /\ refresh' = [refresh EXCEPT ![r].now = clock, ![r].pc = "merge"]
           /\ LET others == {s \in Refreshes : refresh[s].pc \in {"merge", "write"}}
              IN  raced' = raced \cup IF others = {} THEN {} ELSE others \cup {r}
        \/ /\ ~IsChannelAdmin(u) \/ ~CooledDown(clock)
           /\ refresh' = [refresh EXCEPT ![r].pc = "denied"]
           /\ UNCHANGED raced
    /\ UNCHANGED <<worldVars, syncVars, statsVars, streamVars, faults>>

(* MergeStatsRequestedAt reads the document, ...                             *)
MergeRead(r) ==
    /\ refresh[r].pc = "merge"
    /\ refresh' = [refresh EXCEPT ![r].pc = "write", ![r].version = stats.version]
    /\ UNCHANGED <<worldVars, syncVars, statsVars, streamVars, raced, faults>>

(* Mutant: the document is written with nothing but requested_at.            *)
MergeWriteOnlyTime(r) ==
    /\ refresh[r].pc = "write"
    /\ refresh' = [refresh EXCEPT ![r].pc = "push", ![r].version = 0]
    /\ UpsertChannelStats(r, 0, refresh[r].now)
    /\ UNCHANGED <<worldVars, syncVars, fetch, stored, streamVars, raced, faults>>

(* ... and writes it with requested_at set to the time of the request.       *)
MergeWrite(r) ==
    /\ refresh[r].pc = "write"
    /\ refresh' = [refresh EXCEPT ![r].pc = "push", ![r].version = 0]
    /\ UpsertChannelStats(r, refresh[r].version, refresh[r].now)
    /\ UNCHANGED <<worldVars, syncVars, fetch, stored, streamVars, raced, faults>>

(* AddChannelUpdateStatsEvent; without it the cooldown has begun in vain.    *)
PushRefresh(r) ==
    /\ refresh[r].pc = "push"
    /\ \/ /\ refresh' = [refresh EXCEPT ![r].pc = "done", ![r].want = telegram.version]
          /\ stream' = [stream EXCEPT !.fresh = @ \cup {r}] /\ UNCHANGED faults
       \/ /\ refresh' = [refresh EXCEPT ![r].pc = "failed"]
          /\ Fault("push") /\ UNCHANGED stream
    /\ UNCHANGED <<worldVars, syncVars, statsVars, job, dropped, raced>>

-----------------------------------------------------------------------------
HandleChannelUpdate ==
    \/ UpsertChannel \/ UpdateStats \/ DeleteChannelAdmins
    \/ UpsertChannelAdmin \/ UpdateChannelPhoto

HandleEvents(f) == TakeEvent(f) \/ DropEvent(f) \/ ServeEvent(f) \/ FinishEvent(f)

RequestStatsRefresh(r) ==
    CheckRefresh(r) \/ MergeRead(r) \/ MergeWrite(r) \/ PushRefresh(r)

ChannelNext ==
    \/ Tick \/ ChangeAdmins \/ StatisticsGrow
    \/ HandleChannelUpdate \/ RestartUserbot
    \/ \E f \in Consumers : HandleEvents(f)
    \/ \E r \in Refreshes : RequestStatsRefresh(r)

(* The goroutines of the userbot go on: each of their calls ends.            *)
ChannelFairness ==
    /\ WF_channelVars(HandleChannelUpdate)
    /\ \A f \in Consumers : WF_channelVars(HandleEvents(f))

-----------------------------------------------------------------------------
ChannelTypeOK ==
    /\ scene \in Scenes /\ clock \in 1..MaxClock
    /\ telegram \in [admins : SUBSET Users, version : 1..MaxVersion, changes : 0..MaxChanges]
    /\ {canView, notice, photo, missed} \subseteq BOOLEAN
    /\ admins \cup sync.todo \subseteq Users
    /\ sync.pc \in {"idle", "stats", "admins", "insert", "photo"}
    /\ stats \in [version : 0..MaxVersion, at : 0..MaxClock] /\ stored \in 0..MaxVersion
    /\ fetch \in [Fetchers -> 0..MaxVersion]
    /\ UNION {stream.fresh, stream.pending, dropped, raced} \subseteq Refreshes
    /\ job \in [Consumers -> [event : Refreshes \cup {None}, todo : BOOLEAN]]
    /\ refresh \in [Refreshes ->
            [pc : {"start", "merge", "write", "push", "done", "denied", "failed"},
             now : 0..MaxClock, version : 0..MaxVersion, want : 0..MaxVersion]]
    /\ crossed \subseteq Fetchers \cup Refreshes /\ faults \in 0..MaxFaults

(* Two refreshes that were let through are a cooldown apart, unless one of   *)
(* them, or a third, was let through beside one that had not yet written.    *)
CooldownKept ==
    \A r, s \in Refreshes \ raced :
        (/\ r # s /\ refresh[r].now <= refresh[s].now
         /\ {refresh[r].pc, refresh[s].pc} \subseteq {"merge", "write", "push", "done", "failed"})
            => refresh[s].now >= refresh[r].now + Cooldown

(* The statistics kept go back to an older version, or are lost, only by a   *)
(* write of someone who had read before another's write.                     *)
StatisticsKept ==
    [][stats'.version < stats.version => crossed \ crossed' # {}]_channelVars

(* Once Telegram's admins rest, the rows and the photo follow them, unless   *)
(* the latest update was given up on an error or lost to a restart.          *)
ChannelSynced == <>[]((admins = telegram.admins /\ photo) \/ missed)

(* Statistics no older than those Telegram had when a refresh was accepted   *)
(* are stored in the end, if the userbot may read them and its event was not *)
(* acknowledged on an error.                                                 *)
RefreshServed ==
    \A r \in Refreshes :
        (refresh[r].pc = "done" /\ canView) ~> (stored >= refresh[r].want \/ r \in dropped)

-----------------------------------------------------------------------------
(* The inductive invariant behind CatalogueProofs' theorems on statistics.   *)

(* A request let through has written its time, with which its cooldown       *)
(* begins, or has not.                                                       *)
Begun(r) == refresh[r].pc \in {"push", "done", "failed"}
Unwritten(r) == refresh[r].pc \in {"merge", "write"}

StatisticsTyped ==
    /\ clock \in Nat \ {0} /\ stats \in [version : Nat, at : Nat]
    /\ telegram \in [admins : SUBSET Users, version : Nat \ {0}, changes : Nat]
    /\ fetch \in [Fetchers -> Nat]
    /\ refresh \in [Refreshes ->
            [pc : {"start", "merge", "write", "push", "done", "denied", "failed"},
             now : Nat, version : Nat, want : Nat]]

(* The time kept is no earlier than that of any cooldown that has begun, nor *)
(* will a write put it back before one.                                      *)
CooldownRemembered ==
    /\ \A r \in Refreshes :
        Begun(r) \/ Unwritten(r) => 0 < refresh[r].now /\ refresh[r].now <= clock
    /\ \A s \in Refreshes \ raced :
        /\ Unwritten(s) => \A r \in Refreshes : Unwritten(r) => r = s
        /\ Begun(s) =>
            /\ refresh[s].now <= stats.at
            /\ \A r \in Refreshes : Unwritten(r) => refresh[s].now <= refresh[r].now

(* Who has not been crossed holds a version no older than the one kept.      *)
UncrossedIsFresh ==
    /\ stats.version <= telegram.version
    /\ \A f \in Fetchers :
        /\ fetch[f] <= telegram.version
        /\ (fetch[f] # 0 /\ f \notin crossed) => stats.version <= fetch[f]
    /\ \A r \in Refreshes : refresh[r].pc = "write" =>
        /\ refresh[r].version <= telegram.version
        /\ r \notin crossed => stats.version <= refresh[r].version

ChannelInv ==
    StatisticsTyped /\ CooldownRemembered /\ CooldownKept /\ UncrossedIsFresh
=============================================================================
