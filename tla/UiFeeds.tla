-------------------------------- MODULE UiFeeds --------------------------------
(***************************************************************************)
(* The panels of the Web UI that keep themselves up to date: the telemetry *)
(* of the dashboard, of the telemetry page, of the flyout deviceDetails    *)
(* and of ruleDetails; the analytics of the dashboard; the alerts and      *)
(* files of deviceDetails.  A subject restarts the stream of a panel with  *)
(* the devices the page is about; the stream asks, waits, and asks again.  *)
(***************************************************************************)
EXTENDS Naturals, FiniteSets

CONSTANTS Pages,        \* the pages a run is about
          Devices,      \* all devices, whatever group they are in
          MaxAsks,      \* how often a page is refreshed or gets other devices
          FeedRetries   \* maxRetryAttempts of the dashboard's streams

ASSUME FeedAssumption == MaxAsks \in Nat /\ FeedRetries \in Nat

VARIABLES page,      \* the page this behaviour is about
          opened,    \* is it on the screen?
          devices,   \* props: the devices it is about
          feed,      \* feed[f].live: is the subject subscribed to?  feed[f].streams: its streams
          panel,     \* panel[f]: the devices whose data it shows, pending and error
          asks       \* the restarts so far

feedVars == <<page, opened, devices, feed, panel, asks>>

Pulsing == {"telemetry", "analytics"}
PanelsOf == [dashboard |-> Pulsing, deviceTelemetry |-> {"telemetry"},
             deviceDetails |-> {"telemetry", "alerts", "files"}, ruleDetails |-> {"telemetry"}]

\* A stream with its devices; it asks for their data of the whole interval ("first"), waits
\* and asks for the last minute ("again").
Stream(of) == [of |-> of, phase |-> "first", left |-> FeedRetries]
Streams == [of : SUBSET Devices, phase : {"first", "delay", "again"}, left : 0..FeedRetries]

Fresh(isPending) == [of |-> {}, pending |-> isPending, error |-> FALSE]
Subscribed(streams) == [live |-> TRUE, streams |-> streams]

\* Mutant of Switched: mergeMap instead of switchMap.
Joined(fd, streams) == IF fd.live THEN [fd EXCEPT !.streams = @ \union streams] ELSE fd

\* subject.pipe(switchMap(...)): the stream before is dropped; after an error nobody listens.
Switched(fd, streams) == IF fd.live THEN [fd EXCEPT !.streams = streams] ELSE fd

-----------------------------------------------------------------------------
(* The streams the pages start                                             *)

\* getTelemetryStream and its like in ruleDetails: none without devices.
TelemetryStream(of) == IF of = {} THEN {} ELSE {Stream(of)}

\* getAnalyticsStream: without devices the parameter is undefined, which asks for all.
AnalyticsStream(of) == {Stream(IF of = {} THEN Devices ELSE of)}

\* The dashboard refreshes when it is mounted, if the devices were fetched by then.
DashboardInit ==
  /\ page = "dashboard" /\ panel = [f \in Pulsing |-> Fresh(TRUE)]
  /\ \/ devices = {} /\ feed = [f \in Pulsing |-> Subscribed({})]
     \/ /\ devices \in SUBSET Devices
        /\ feed = [f \in Pulsing |->
                     Subscribed(IF f = "telemetry" THEN TelemetryStream(devices)
                                                   ELSE AnalyticsStream(devices))]

\* dashboardRefresh$: the refresh button, another interval or other devices.  The state is
\* reset whether or not the two other subscriptions are still there.
DashboardRefresh(now) ==
  /\ devices' = now
  /\ panel' = [f \in Pulsing |-> Fresh(TRUE)]
  /\ feed' = [telemetry |-> Switched(feed.telemetry, TelemetryStream(now)),
              analytics |-> Switched(feed.analytics, AnalyticsStream(now))]

\* The telemetry page is about the devices that were selected.
TelemetryPageInit ==
  /\ page = "deviceTelemetry" /\ devices \in (SUBSET Devices) \ {{}}
  /\ feed = [telemetry |-> Subscribed(TelemetryStream(devices))]
  /\ panel = [telemetry |-> Fresh(FALSE)]

\* updateTimeInterval and refreshTelemetry: resetTelemetry$ clears the data, if anybody
\* still listens.
Cleared(p, fd) == IF fd.live THEN [p EXCEPT !.of = {}] ELSE p
TelemetryPageRefresh ==
  /\ feed' = [feed EXCEPT !.telemetry = Switched(@, TelemetryStream(devices))]
  /\ panel' = [panel EXCEPT !.telemetry = Cleared(@, feed.telemetry)]
  /\ UNCHANGED devices

\* The flyout with the details of one device.
DetailsInit ==
  /\ page = "deviceDetails" /\ \E d \in Devices : devices = {d}
  /\ feed = [f \in PanelsOf[page] |-> Subscribed({Stream(devices)})]
  /\ panel = [f \in PanelsOf[page] |-> Fresh(f # "files")]

\* fetchAlerts, fetchDeviceUploads and fetchDeviceDeployments: the calls for the device
\* before are not dropped, only their subscription is forgotten.
DetailsFetch(f, of) == [feed[f] EXCEPT !.streams = @ \union {Stream(of)}]

\* componentWillReceiveProps with another device.  The base state is set after the calls
\* were started, so that isAlertsPending is false again.
DetailsChange(d) ==
  /\ {d} # devices /\ devices' = {d}
  /\ feed' = [f \in PanelsOf[page] |->
                IF f = "telemetry" THEN Switched(feed[f], TelemetryStream({d}))
                                   ELSE DetailsFetch(f, {d})]
  /\ panel' = [f \in PanelsOf[page] |-> Fresh(f = "telemetry")]

\* The page of a rule.  Its telemetry is that of the devices with an alert.
RuleInit ==
  /\ page = "ruleDetails" /\ devices \in SUBSET Devices
  /\ feed = [telemetry |-> Subscribed(TelemetryStream(devices))]
  /\ panel = [telemetry |-> Fresh(FALSE)]

\* handleProps and restartTelemetry$ (distinctUntilChanged).
RuleProps(now) ==
  /\ now # devices /\ devices' = now
  /\ feed' = [feed EXCEPT !.telemetry = Switched(@, TelemetryStream(now))]
  /\ panel' = [panel EXCEPT !.telemetry =
                 IF feed.telemetry.live THEN [@ EXCEPT !.of = {}, !.pending = FALSE] ELSE @]

-----------------------------------------------------------------------------
(* The answers                                                             *)

Asked(f) == {s \in feed[f].streams : s.phase # "delay"}

Moves(f, s, next) == feed' = [feed EXCEPT ![f].streams = (@ \ {s}) \union next]

\* transformTelemetryResponse adds the messages to those that are shown; telemetryRefresh$
\* then starts the wait for the next minute.
TelemetryAnswer(s) ==
  /\ s \in Asked("telemetry") /\ Moves("telemetry", s, {[s EXCEPT !.phase = "delay"]})
  /\ \E some \in SUBSET s.of :
       panel' = [panel EXCEPT !.telemetry.of = @ \union some, !.telemetry.pending = FALSE]

\* The alerts of two intervals, and what is counted from them.
AnalyticsAnswer(s) ==
  /\ page = "dashboard"
  /\ s \in Asked("analytics") /\ Moves("analytics", s, {[s EXCEPT !.phase = "delay"]})
  /\ \E some \in SUBSET s.of :
       panel' = [panel EXCEPT !.analytics = [@ EXCEPT !.of = some, !.pending = FALSE]]

\* The callbacks of deviceDetails do not ask which device is shown by now.
DetailsAnswer(f, s) ==
  /\ page = "deviceDetails" /\ f \in {"alerts", "files"}
  /\ s \in Asked(f) /\ Moves(f, s, {})
  /\ \E some \in SUBSET s.of : panel' = [panel EXCEPT ![f] = [Fresh(FALSE) EXCEPT !.of = some]]

\* Mutant of Wait: the next minute is not asked for.
WaitOnly(f, s) ==
  /\ s \in feed[f].streams /\ s.phase = "delay" /\ UNCHANGED feed
  /\ panel' = [panel EXCEPT ![f].pending = TRUE]

\* delay(...) is over and onPendingStart runs.
Wait(f, s) ==
  /\ s \in feed[f].streams /\ s.phase = "delay"
  /\ Moves(f, s, {[s EXCEPT !.phase = "again"]})
  /\ panel' = [panel EXCEPT ![f].pending = TRUE]

\* retryWhen: the stream starts again.  Its attempts are those of its whole life; the
\* analytics become pending again.
Retry(f, s) ==
  /\ page = "dashboard" /\ s \in Asked(f) /\ s.left > 0
  /\ Moves(f, s, {[s EXCEPT !.phase = "first", !.left = @ - 1]})
  /\ panel' = [panel EXCEPT ![f].pending = @ \/ f = "analytics"]

\* The error callback: the subscription to the subject is over with the stream.
StreamFails(f, s) ==
  /\ f \in Pulsing /\ s \in Asked(f)
  /\ feed' = [feed EXCEPT ![f] = [live |-> FALSE, streams |-> {}]]
  /\ panel' = [panel EXCEPT ![f] = [@ EXCEPT !.pending = FALSE, !.error = TRUE]]

\* The files have no error callback.
DetailsFails(f, s) ==
  /\ f \in {"alerts", "files"} /\ s \in Asked(f) /\ Moves(f, s, {})
  /\ panel' = IF f = "alerts"
              THEN [panel EXCEPT ![f] = [@ EXCEPT !.pending = FALSE, !.error = TRUE]]
              ELSE panel

\* componentWillUnmount; what is not unsubscribed finds no component.
ClosePage == /\ opened /\ opened' = FALSE
             /\ feed' = [f \in DOMAIN feed |-> [live |-> FALSE, streams |-> {}]]
             /\ UNCHANGED <<page, devices, panel, asks>>

Ends(f, s) == \/ f = "telemetry" /\ TelemetryAnswer(s)
              \/ f = "analytics" /\ AnalyticsAnswer(s)
              \/ DetailsAnswer(f, s) \/ StreamFails(f, s) \/ DetailsFails(f, s)

Restart == /\ opened /\ asks < MaxAsks /\ asks' = asks + 1 /\ UNCHANGED <<page, opened>>
           /\ \/ page = "dashboard" /\ \E now \in SUBSET Devices : DashboardRefresh(now)
              \/ page = "deviceTelemetry" /\ TelemetryPageRefresh
              \/ page = "deviceDetails" /\ (TelemetryPageRefresh \/ \E d \in Devices : DetailsChange(d))
              \/ page = "ruleDetails" /\ \E now \in SUBSET Devices : RuleProps(now)

StreamEnds(f) == /\ \E s \in feed[f].streams : Ends(f, s)
                 /\ UNCHANGED <<page, opened, devices, asks>>
StreamMoves(f) == /\ \E s \in feed[f].streams : Wait(f, s) \/ Retry(f, s)
                  /\ UNCHANGED <<page, opened, devices, asks>>

FeedInit == /\ DashboardInit \/ TelemetryPageInit \/ DetailsInit \/ RuleInit
            /\ page \in Pages /\ opened = TRUE /\ asks = 0
FeedNext == Restart \/ ClosePage \/ \E f \in DOMAIN feed : StreamEnds(f) \/ StreamMoves(f)

FeedSpec == FeedInit /\ [][FeedNext]_feedVars

-----------------------------------------------------------------------------
\* Type invariant of the panels.
FeedTypeOK ==
  /\ page \in DOMAIN PanelsOf /\ opened \in BOOLEAN /\ devices \subseteq Devices
  /\ feed \in [PanelsOf[page] -> [live : BOOLEAN, streams : SUBSET Streams]]
  /\ panel \in [PanelsOf[page] -> [of : SUBSET Devices, pending : BOOLEAN, error : BOOLEAN]]
  /\ asks \in 0..MaxAsks

\* The telemetry and analytics on the screen are those of the devices the page is about, also
\* when it turned to others while calls were in flight.  Two exceptions of the code: the
\* analytics of a group without devices are those of all, and ruleDetails keeps what it shows
\* once its stream has failed.
ShownIsOfPage ==
  \A f \in DOMAIN panel \intersect Pulsing :
    \/ panel[f].of \subseteq devices
    \/ f = "analytics" /\ devices = {}
    \/ page = "ruleDetails" /\ ~feed[f].live

\* A panel that is pending and whose stream runs.  (One that failed before can be pending for
\* ever: a refresh sets the flag and nobody listens to it.)
PanelPending(f) == f \in DOMAIN panel /\ panel[f].pending /\ feed[f].streams # {}
================================================================================
