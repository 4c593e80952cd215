------------------------------ MODULE ApiRuntime ------------------------------
(***************************************************************************)
(* One API process of the control plane and one agent that polls it.       *)
(*   src/control-plane/internal/api/apiruntime, internal/api/apirpc,       *)
(*   internal/etcd/watcher.go and the three watch handlers, cmd/api        *)
(*                                                                         *)
(* The process caches placements and target groups.  Three watchers, each  *)
(* with its own goroutine, bring changes of etcd into the cache; a target  *)
(* group that an agent asks for and that is not cached is fetched by one   *)
(* more goroutine.  The agent's long poll takes the difference between its *)
(* versions and the cache, or waits for a notifier that the cache entries  *)
(* hold.  A notifier that outlives its poll has no effect: a poll keeps    *)
(* the entries that hold its notifier in `subs`, and the collection of     *)
(* expired notifiers is left out.                                          *)
(***************************************************************************)
EXTENDS Changelog, FiniteSets

CONSTANT MaxPlacements  \* bound: placements the reconciler writes

ASSUME ApiAssumption == MaxPlacements \in Nat

VARIABLES placement,   \* the agent's placement in etcd; version 0: no key
          tgCache,     \* targetGroupCache: a sequence with at most one entry
          dplCache,    \* dataPlaneCache of the agent's node
          fetch,       \* fetchTargetGroupInfo in progress
          poll,        \* StreamDataPlaneAssignments
          agent        \* what the agent has stored

apiVars == <<tgCache, dplCache, fetch>>
vars == <<etcdVars, writerVars, stream, placement, apiVars, poll, agent, faults>>

Cached(tg) == tgCache[tg] # <<>>
Group(tg) == tgCache[tg][1]
NoGroup == [spec |-> 0, ep |-> 0, base |-> 0, log |-> <<>>]
NoFetch == [pc |-> "none"]
Idle == [pc |-> "idle"]
NoStatus == [spec |-> 0, ep |-> 0]

Held == DOMAIN agent.status

(* The watch of placements starts behind what was read, the other watches, *)
(* and that of placements when there was nothing to read, at the moment    *)
(* they are opened (cmd/api/main.go, GetDataPlanesPlacements).             *)
ClosedStream == [open |-> FALSE, queue |-> <<>>, last |-> <<>>, behind |-> 0]
StartedStreams ==
    [k \in Kinds |-> [ClosedStream EXCEPT !.open = k = "placement" /\ placement.version > 0]]

(* The process is started before anything is in etcd and has opened its    *)
(* watches; Restart leads to the other ways of starting.                   *)
Init ==
    /\ ChangelogInit
    /\ placement = [version |-> 0, tgs |-> {}]
    /\ stream = [k \in Kinds |-> [ClosedStream EXCEPT !.open = TRUE]]
    /\ tgCache = [tg \in TargetGroups |-> <<>>]
    /\ dplCache = <<>>
    /\ fetch = [tg \in TargetGroups |-> NoFetch]
    /\ poll = Idle
    /\ agent = [version |-> 0, status |-> <<>>]

-----------------------------------------------------------------------------
(* The reconciler, in its own process, writes a placement.                 *)
WritePlacement(tgs) ==
    /\ placement.version < MaxPlacements
    /\ \A tg \in tgs : specTs[tg] # -1
    /\ tgs # placement.tgs
    /\ placement' = [version |-> placement.version + 1, tgs |-> tgs]
    /\ stream' = Emitted("placement", placement')
    /\ UNCHANGED <<etcdVars, writerVars, apiVars, poll, agent, faults>>

(* The process dies and main runs again; the agent's call is cut off.      *)
Restart ==
    /\ Fault("restart")
    /\ stream' = StartedStreams
    /\ tgCache' = [tg \in TargetGroups |-> <<>>]
    /\ dplCache' = IF placement.version = 0 THEN <<>> ELSE << <<placement>> >>
    /\ fetch' = [tg \in TargetGroups |-> NoFetch]
    /\ poll' = Idle
    /\ UNCHANGED <<etcdVars, writerVars, placement, agent>>

OpenWatch(k) ==
    /\ ~stream[k].open
    /\ stream' = [stream EXCEPT ![k].open = TRUE]
    /\ UNCHANGED <<etcdVars, writerVars, placement, apiVars, poll, agent, faults>>

(* What a watch brings that is opened again from lastRevision: the last    *)
(* event again.  When nothing was received since the watch was opened,     *)
(* lastRevision is the store's revision at that moment (WithCreatedNotify),*)
(* and the events that were behind it, up to the one of that revision if   *)
(* the watch has it, are skipped.                                          *)
Resumed(s) ==
    IF s.behind = 0 THEN {s.last \o s.queue}
    ELSE {SubSeq(s.queue, s.behind + skip, Len(s.queue)) : skip \in {0, 1}}

(* A watch is cancelled and opened again.                                  *)
Rewatch(k) ==
    /\ stream[k].open /\ (stream[k].last # <<>> \/ stream[k].behind > 0)
    /\ Fault("rewatch")
    /\ \E q \in Resumed(stream[k]) :
          stream' = [stream EXCEPT ![k].queue = q, ![k].last = <<>>, ![k].behind = Len(q)]
    /\ UNCHANGED <<etcdVars, writerVars, placement, apiVars, poll, agent>>

Receive(k) ==
    LET s == stream[k] IN
    /\ s.queue # <<>>
    /\ stream' = [stream EXCEPT ![k] = [s EXCEPT !.queue = Tail(@), !.last = <<Head(s.queue)>>,
                                                !.behind = IF @ > 0 THEN @ - 1 ELSE 0]]

(* notifyAll of an entry of the caches.                                    *)
Notify(entry) ==
    poll' = IF poll.pc # "idle" /\ entry \in poll.subs
            THEN [poll EXCEPT !.closed = TRUE, !.subs = @ \ {entry}]
            ELSE poll

Node == "node"   \* the entry of dataPlaneCache among the subscriptions

EntryExists(pl) == dplCache # <<>>
NotNewer(pl) == dplCache # <<>> /\ dplCache[1] # <<>> /\ dplCache[1][1].version >= pl.version

HandlePlacementChange ==
    LET pl == Head(stream["placement"].queue) IN
    /\ Receive("placement")
    /\ IF NotNewer(pl)
       THEN UNCHANGED <<dplCache, poll>>
       ELSE dplCache' = << <<pl>> >> /\ Notify(Node)
    /\ UNCHANGED <<etcdVars, writerVars, placement, tgCache, fetch, agent, faults>>

HandleTgSpecChange ==
    LET e == Head(stream["spec"].queue) IN
    /\ Receive("spec")
    /\ CASE ~Cached(e.tg) ->
              /\ tgCache' = [tgCache EXCEPT ![e.tg] = <<[NoGroup EXCEPT !.spec = e.ver]>>]
              /\ UNCHANGED poll
         [] Cached(e.tg) /\ Group(e.tg).spec >= e.ver ->
              UNCHANGED <<tgCache, poll>>
         [] OTHER ->
              /\ tgCache' = [tgCache EXCEPT ![e.tg][1].spec = e.ver]
              /\ Notify(e.tg)
    /\ UNCHANGED <<etcdVars, writerVars, placement, dplCache, fetch, agent, faults>>

(* Whether an event extends a cached changelog: an empty one takes any     *)
(* version, and one behind a gap is dropped.                               *)
AcceptsAnything(g, e) == TRUE
Extends(g, e) == g.log = <<>> \/ g.base + Len(g.log) + 1 = e.ver

(* A cached changelog holds the versions base + 1 .. base + Len(log).      *)
AppendIntoChangelog(g, e) ==
    [g EXCEPT !.base = IF g.log = <<>> THEN e.ver - 1 ELSE @,
              !.log = Append(@, e.entry), !.ep = e.ver]

HandleEndpointChange ==
    LET e == Head(stream["endpoint"].queue) IN
    /\ Receive("endpoint")
    /\ IF Cached(e.tg) /\ Extends(Group(e.tg), e)
       THEN /\ tgCache' = [tgCache EXCEPT ![e.tg][1] = AppendIntoChangelog(@, e)]
            /\ Notify(e.tg)
       ELSE UNCHANGED <<tgCache, poll>>
    /\ UNCHANGED <<etcdVars, writerVars, placement, dplCache, fetch, agent, faults>>

-----------------------------------------------------------------------------
(* fetchTargetGroupInfo: updateTargetGroup reads the cached versions, then *)
(* GetTargetGroupDiff reads the spec and the changelog from etcd one after *)
(* the other, and what it found is applied to whatever the cache is then.  *)
FetchBegin(tg) ==
    /\ fetch[tg].pc = "begin"
    /\ fetch' = [fetch EXCEPT ![tg] = [pc |-> "spec", spec |-> Group(tg).spec, base |-> Group(tg).ep]]
    /\ UNCHANGED <<etcdVars, writerVars, stream, placement, tgCache, dplCache, poll, agent, faults>>

FetchSpec(tg) ==
    /\ fetch[tg].pc = "spec"
    /\ fetch' = [fetch EXCEPT ![tg] =
          IF specTs[tg] = -1 THEN NoFetch
          ELSE [fetch[tg] EXCEPT !.pc = "log", !.spec = IF specTs[tg] > @ THEN specTs[tg] ELSE @]]
    /\ UNCHANGED <<etcdVars, writerVars, stream, placement, tgCache, dplCache, poll, agent, faults>>

FetchChangelog(tg) ==
    /\ fetch[tg].pc = "log"
    /\ fetch' = [fetch EXCEPT ![tg] =
          [pc |-> "apply", spec |-> fetch[tg].spec, base |-> fetch[tg].base,
           log |-> SubSeq(changelog[tg], fetch[tg].base + 1, Len(changelog[tg]))]]
    /\ UNCHANGED <<etcdVars, writerVars, stream, placement, tgCache, dplCache, poll, agent, faults>>

FetchFailed(tg) ==
    /\ fetch[tg].pc \in {"spec", "log"}
    /\ Fault("error")
    /\ fetch' = [fetch EXCEPT ![tg] = NoFetch]
    /\ UNCHANGED <<etcdVars, writerVars, stream, placement, tgCache, dplCache, poll, agent>>

(* updateTargetGroup of the cache entry, with the fetched changelog in the *)
(* place of the cached one.                                                *)
UpdatedChangelog(g, f) ==
    IF g.ep < f.base + Len(f.log)
    THEN [g EXCEPT !.ep = f.base + Len(f.log), !.base = f.base, !.log = f.log]
    ELSE g

UpdateTargetGroup(tg) ==
    LET f == fetch[tg]
        g == Group(tg)
        updated == UpdatedChangelog([g EXCEPT !.spec = IF g.spec < f.spec THEN f.spec ELSE @], f)
    IN  /\ f.pc = "apply"
        /\ tgCache' = [tgCache EXCEPT ![tg] = <<updated>>]
        /\ IF updated # g THEN Notify(tg) ELSE UNCHANGED poll
        /\ fetch' = [fetch EXCEPT ![tg] = NoFetch]
        /\ UNCHANGED <<etcdVars, writerVars, stream, placement, dplCache, agent, faults>>

-----------------------------------------------------------------------------
(* The long poll.  A request carries the versions the agent has stored,    *)
(* which do not change while it is served.                                 *)
Notifier == [pc |-> "placement", closed |-> FALSE, subs |-> {}]

PollUpdates ==
    /\ poll.pc = "idle"
    /\ poll' = Notifier
    /\ UNCHANGED <<etcdVars, writerVars, stream, placement, apiVars, agent, faults>>

(* getDataplanePlacement: a node without a placement, or ahead of it,      *)
(* subscribes to it; a node that is up to date does not.                   *)
GetDataplanePlacement ==
    /\ poll.pc = "placement"
    /\ dplCache' = IF dplCache = <<>> THEN << <<>> >> ELSE dplCache
    /\ IF dplCache'[1] = <<>> \/ dplCache'[1][1].version < agent.version
       THEN poll' = [poll EXCEPT !.pc = "wait", !.subs = @ \cup {Node}]
       ELSE LET pl == dplCache'[1][1]
                changed == pl.version # agent.version
            IN  poll' = [pc |-> "groups", closed |-> poll.closed, subs |-> poll.subs,
                         version |-> pl.version,
                         added |-> IF changed THEN pl.tgs \ Held ELSE {},
                         deleted |-> IF changed THEN Held \ pl.tgs ELSE {}]
    /\ UNCHANGED <<etcdVars, writerVars, stream, placement, tgCache, fetch, agent, faults>>

(* slices.BinarySearchFunc over the cached versions, and the step over the *)
(* version that the agent has.                                             *)
SearchedIndex(g, ver) ==
    IF ver <= g.base THEN 0 ELSE IF ver > g.base + Len(g.log) THEN Len(g.log) ELSE ver - g.base - 1
StartAtFound(g, ver) == IF ver > 0 THEN SearchedIndex(g, ver) ELSE 0
Start(g, ver) == IF ver > 0 THEN SearchedIndex(g, ver) + 1 ELSE 0

(* getDiffForTg; a spec is part of a change when its version is newer.     *)
DiffWithCachedVersions(tg, st) ==
    LET g == Group(tg) IN
    [spec |-> g.spec, hasSpec |-> g.spec > st.spec, ep |-> g.ep,
     log |-> SubSeq(g.log, Start(g, st.ep) + 1, Len(g.log))]
DiffForTg(tg, st) ==
    LET g == Group(tg) IN
    [spec |-> IF g.spec > st.spec THEN g.spec ELSE st.spec,
     hasSpec |-> g.spec > st.spec,
     ep |-> IF g.ep > st.ep THEN g.ep ELSE st.ep,
     log |-> IF g.ep > st.ep THEN SubSeq(g.log, Start(g, st.ep) + 1, Len(g.log)) ELSE <<>>]
EmptyChange == [spec |-> 0, hasSpec |-> FALSE, ep |-> 0, log |-> <<>>]

Updated(tg) == Group(tg).spec > agent.status[tg].spec \/ Group(tg).ep > agent.status[tg].ep

NoPlaceholders(tgs) == tgCache
Placeholders(tgs) == [tg \in TargetGroups |-> IF tg \in tgs THEN <<NoGroup>> ELSE tgCache[tg]]

GetTargetGroupChanges ==
    LET kept == Held \ poll.deleted
        needFetch == {tg \in poll.added \cup kept : ~Cached(tg)}
        update == {tg \in kept \ needFetch : Updated(tg)}
        needWait == poll.added = {} /\ poll.deleted = {} /\ update = {}
    IN  /\ poll.pc = "groups"
        /\ poll' = [pc |-> IF needFetch # {} THEN "insert" ELSE IF needWait THEN "wait" ELSE "reply",
                    closed |-> poll.closed,
                    subs |-> IF needWait THEN poll.subs \cup (kept \ needFetch) ELSE {},
                    wait |-> needWait, fetch |-> needFetch,
                    version |-> poll.version, removed |-> poll.deleted,
                    new |-> [tg \in poll.added |->
                               IF Cached(tg) THEN DiffForTg(tg, NoStatus) ELSE EmptyChange],
                    update |-> [tg \in update |-> DiffForTg(tg, agent.status[tg])]]
        /\ UNCHANGED <<etcdVars, writerVars, stream, placement, apiVars, agent, faults>>

(* What getTargetGroupChanges defers, under a lock it takes anew: the      *)
(* notifier is left only in entries that nobody else has inserted.         *)
InsertPlaceholders ==
    LET missing == {tg \in poll.fetch : ~Cached(tg)} IN
    /\ poll.pc = "insert"
    /\ tgCache' = Placeholders(missing)
    /\ fetch' = [tg \in TargetGroups |-> IF tg \in poll.fetch THEN [pc |-> "begin"] ELSE fetch[tg]]
    /\ poll' = [poll EXCEPT !.pc = IF poll.wait THEN "wait" ELSE "reply",
                            !.subs = @ \cup missing, !.fetch = {}]
    /\ UNCHANGED <<etcdVars, writerVars, stream, placement, dplCache, agent, faults>>

(* The notifier's channel stays closed: a second wait returns at once.     *)
WakeUp ==
    /\ poll.pc = "wait" /\ poll.closed
    /\ poll' = [pc |-> "placement", closed |-> poll.closed, subs |-> poll.subs]
    /\ UNCHANGED <<etcdVars, writerVars, stream, placement, apiVars, agent, faults>>

WaitTimeout ==
    /\ poll.pc = "wait"
    /\ poll' = Idle
    /\ UNCHANGED <<etcdVars, writerVars, stream, placement, apiVars, agent, faults>>

ReplyLost ==
    /\ poll.pc = "reply" /\ Fault("error")
    /\ poll' = Idle
    /\ UNCHANGED <<etcdVars, writerVars, stream, placement, apiVars, agent>>

(* The agent stores a reply: updates first, then new target groups up to   *)
(* one without a spec, which ends the call before anything is removed and  *)
(* before the placement's version is stored (reconciler.go of nlb-agent,   *)
(* modelled step by step in module Agent).                                 *)
Stored(c) == [spec |-> c.spec, ep |-> c.ep]

UpdateDesired ==
    LET r == poll
        new == DOMAIN r.new
        refused == {tg \in new : ~r.new[tg].hasSpec}
        With(added, removed) ==
            [tg \in (Held \cup added) \ removed |->
                IF tg \in added THEN Stored(r.new[tg])
                ELSE IF tg \in DOMAIN r.update THEN Stored(r.update[tg]) ELSE agent.status[tg]]
    IN  /\ poll.pc = "reply"
        /\ IF refused = {}
           THEN agent' = [version |-> r.version, status |-> With(new, r.removed)]
           ELSE \E added \in SUBSET (new \ refused) :
                   agent' = [agent EXCEPT !.status = With(added, {})]
        /\ poll' = Idle
        /\ UNCHANGED <<etcdVars, writerVars, stream, placement, apiVars, faults>>

-----------------------------------------------------------------------------
Writing == ChangelogNext /\ UNCHANGED <<placement, apiVars, poll, agent>>
Watching == \/ HandlePlacementChange \/ HandleTgSpecChange \/ HandleEndpointChange
            \/ \E k \in Kinds : OpenWatch(k)
Fetching(tg) == FetchBegin(tg) \/ FetchSpec(tg) \/ FetchChangelog(tg) \/ UpdateTargetGroup(tg)
Polling == \/ PollUpdates \/ GetDataplanePlacement \/ GetTargetGroupChanges
           \/ InsertPlaceholders \/ WakeUp \/ UpdateDesired

Next ==
    \/ Writing
    \/ \E tgs \in SUBSET TargetGroups : WritePlacement(tgs)
    \/ Watching \/ Restart
    \/ \E k \in Kinds : Rewatch(k)
    \/ \E tg \in TargetGroups : Fetching(tg) \/ FetchFailed(tg)
    \/ Polling \/ WaitTimeout \/ ReplyLost

Spec == Init /\ [][Next]_vars

(* Goroutines that can run do run.  A wait ends at its deadline even when  *)
(* its notifier is closed again and again, since Wait's select then has    *)
(* two cases to choose from.                                               *)
Fairness ==
    /\ WF_vars(Watching)
    /\ WF_vars(\E tg \in TargetGroups : Fetching(tg))
    /\ WF_vars(Polling)
    /\ SF_vars(WaitTimeout)

FairSpec == Spec /\ Fairness

-----------------------------------------------------------------------------
TypeOK ==
    /\ ChangelogTypeOK
    /\ placement.version \in 0 .. MaxPlacements /\ placement.tgs \subseteq TargetGroups
    /\ \A tg \in TargetGroups : Len(tgCache[tg]) <= 1 /\ fetch[tg].pc \in {"none", "begin", "spec", "log", "apply"}
    /\ \A tg \in TargetGroups : fetch[tg].pc # "none" => Cached(tg)
    /\ Held \subseteq TargetGroups

(* A cached changelog is a piece of the one in etcd that ends at the       *)
(* version the entry reports, whichever way its parts came there: watched  *)
(* while it was fetched, watched twice, or fetched after it was watched    *)
(* (runtime.go:62-70 and 241-255).                                         *)
CachedChangelogIsWritten ==
    \A tg \in TargetGroups : Cached(tg) =>
        LET g == Group(tg) IN
        /\ g.ep = g.base + Len(g.log) \/ g.log = <<>>
        /\ g.log = SubSeq(changelog[tg], g.base + 1, g.base + Len(g.log))
        /\ g.spec <= specTs[tg] \/ g.spec = 0

(* An agent whose version lies inside the cached changelog is given every  *)
(* later entry of etcd's changelog up to the version it is told it has,    *)
(* and none twice (data-plane-handler.go:242-266).                         *)
NoEntrySkipped ==
    [][poll.pc = "groups" /\ poll'.pc \in {"insert", "reply"} =>
         \A tg \in DOMAIN poll'.update :
            LET c == poll'.update[tg]
                ver == agent.status[tg].ep
            IN  c.ep > ver /\ ver > Group(tg).base =>
                    c.log = SubSeq(changelog[tg], ver + 1, c.ep)]_poll

(* "all event version and states can go only further" (api.go:254): what   *)
(* an agent has stored never goes back to an older version, whatever the   *)
(* API process that answers has missed or forgotten.                       *)
AgentGoesFurther ==
    [][/\ agent.version <= agent'.version
       /\ \A tg \in DOMAIN agent.status \cap DOMAIN agent'.status :
             /\ agent.status[tg].spec <= agent'.status[tg].spec
             /\ agent.status[tg].ep <= agent'.status[tg].ep]_agent

(* A placement reaches the agent although a poll that is up to date does   *)
(* not subscribe to it (data-plane-handler.go:83-89), when no call of etcd *)
(* fails, the process is not restarted, a watch is cancelled at most once  *)
(* and the target groups of the placement get their specs.                 *)
PlacementDelivered ==
    [](faults["error"] = 0 /\ faults["restart"] = 0 /\ faults["rewatch"] <= 1)
        /\ <>[](\A tg \in placement.tgs : specTs[tg] >= 1)
        => <>[](agent.version = placement.version)
=============================================================================
