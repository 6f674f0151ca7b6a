-------------------------------- MODULE News --------------------------------
(***************************************************************************)
(* Administrators' news: AdminService.sendDriverBroadcast and its list,    *)
(* and the driver's read marks (DriverNewsService).  Drivers are told one  *)
(* by one, by socket and by push; only then is the row stored that they    *)
(* list, and an administrator may edit or delete it.                       *)
(***************************************************************************)
EXTENDS Fleet, FiniteSets

CONSTANTS
  Zones,
  News          (* ids of AdminNewsBroadcast rows: a bound                  *)

ASSUME NewsAssumption ==
  NoValue \notin Zones /\ Drivers \cap (Zones \cup News) = {}

VARIABLES
  driver,     (* zone, and approved with an active account                  *)
  cast,       (* broadcasts: audience, channels and drivers still to notify *)
  news,       (* AdminNewsBroadcast rows                                    *)
  read,       (* AdminNewsDriverRead                                        *)
  marking,    (* markRead between its statements                            *)
  notified,   (* history: <<news, driver>>: told of it by socket or push    *)
  addressed,  (* history: <<news, driver>>: it was on the driver's list     *)
  altered,    (* history: news edited, drivers moved to another zone        *)
  moved,      (* history: <<news, driver>>: asked for by a markRead whose    *)
              (* driver moved after its zone was read for it                *)
  aborted     (* history: broadcasts that died before storing their row     *)

castVars == <<cast, notified, aborted>>
listVars == <<news, read, marking, addressed, altered, moved>>
newsVars == <<driver, castVars, listVars>>

NoNews == [state |-> "none", audience |-> "all_approved", key |-> NoValue]
NoCast == [pc |-> "none", audience |-> "all_approved", key |-> NoValue, todo |-> {}]
NoMark == [pc |-> "idle", zone |-> NoValue, ids |-> {}]

(* An audience and the zone or driver it names.                             *)
Targets == ({"all_approved"} \X {NoValue}) \cup ({"zone"} \X Zones) \cup ({"single_driver"} \X Drivers)

(* Whether a driver of that zone is meant.                                  *)
Meant(audience, key, d, zone) ==
  \/ audience = "all_approved"
  \/ audience = "zone" /\ key = zone
  \/ audience = "single_driver" /\ key = d

Matches(audience, key, d) == Meant(audience, key, d, driver[d].zone)

-----------------------------------------------------------------------------
(* Broadcasts.                                                             *)

(* Mutant: the audience is resolved to every approved driver.               *)
ResolvedToAll(audience, key) == {d \in Drivers : driver[d].live}
ResolveBroadcastDriverIds(audience, key) ==
  {d \in Drivers : driver[d].live /\ Matches(audience, key, d)}

SendDriverBroadcast(b) ==
  \E t \in Targets, listOnly \in BOOLEAN :
     LET ids == ResolveBroadcastDriverIds(t[1], t[2])
     IN  /\ cast[b].pc = "none" /\ news[b].state = "none"
         /\ ids # {}
         /\ cast' = [cast EXCEPT ![b] = [pc |-> "sending", audience |-> t[1], key |-> t[2],
                                         todo |-> IF listOnly THEN {} ELSE ids]]
         /\ UNCHANGED <<notified, aborted, listVars, driver>>

(* Socket or push, or both; the broadcast awaits the end of each push.      *)
Notify(b, d) ==
  /\ d \in cast[b].todo
  /\ cast' = [cast EXCEPT ![b].todo = @ \ {d}]
  /\ notified' = notified \cup {<<b, d>>}
  /\ UNCHANGED <<aborted, listVars, driver>>

List(audience, key) == {d \in Drivers : Matches(audience, key, d)}

Row(audience, key) == [state |-> "posted", audience |-> audience, key |-> key]

BroadcastStored(b) ==
  /\ cast[b].pc = "sending" /\ cast[b].todo = {}
  /\ news' = [news EXCEPT ![b] = Row(cast[b].audience, cast[b].key)]
  /\ addressed' = addressed \cup ({b} \X List(cast[b].audience, cast[b].key))
  /\ cast' = [cast EXCEPT ![b].pc = "done"]
  /\ UNCHANGED <<notified, aborted, read, marking, altered, moved, driver>>

BroadcastDies(b) ==
  /\ cast[b].pc = "sending"
  /\ cast' = [cast EXCEPT ![b] = [NoCast EXCEPT !.pc = "done"]]
  /\ aborted' = aborted \cup {b}
  /\ UNCHANGED <<notified, listVars, driver>>

(* Only the list changes: nobody is told again.                             *)
UpdateAdminDriverNews(b) ==
  /\ news[b].state = "posted"
  /\ \E t \in Targets :
       /\ ResolveBroadcastDriverIds(t[1], t[2]) # {}
       /\ news' = [news EXCEPT ![b] = Row(t[1], t[2])]
       /\ addressed' = addressed \cup ({b} \X List(t[1], t[2]))
  /\ altered' = altered \cup {b}
  /\ UNCHANGED <<read, marking, moved, castVars, driver>>

(* The read marks go with the row.                                          *)
DeleteAdminDriverNews(b) ==
  /\ news[b].state = "posted"
  /\ news' = [news EXCEPT ![b] = [NoNews EXCEPT !.state = "gone"]]
  /\ read' = read \ ({b} \X Drivers)
  /\ UNCHANGED <<marking, addressed, altered, moved, castVars, driver>>

-----------------------------------------------------------------------------
(* The driver reads.                                                       *)

Visible(b, d) == news[b].state = "posted" /\ Matches(news[b].audience, news[b].key, d)

(* broadcastOrForDriver: the driver's zone is read first.                   *)
MarkRead(d) ==
  /\ marking[d].pc = "idle"
  /\ \E ids \in (SUBSET News) \ {{}} :
       marking' = [marking EXCEPT ![d] = [pc |-> "find", zone |-> driver[d].zone, ids |-> ids]]
  /\ UNCHANGED <<news, read, addressed, altered, moved, castVars, driver>>

(* Of the rows asked for, those that mean the driver with that zone.        *)
Allowed(d) ==
  {b \in marking[d].ids : news[b].state = "posted"
                            /\ Meant(news[b].audience, news[b].key, d, marking[d].zone)}

MarkReadFind(d) ==
  /\ marking[d].pc = "find"
  /\ marking' = [marking EXCEPT ![d] = IF Allowed(d) = {} THEN NoMark
                                       ELSE [@ EXCEPT !.pc = "insert", !.ids = Allowed(d)]]
  /\ UNCHANGED <<news, read, addressed, altered, moved, castVars, driver>>

(* One insert for all: news deleted meanwhile makes it fail, marks made     *)
(* meanwhile are skipped.                                                   *)
MarkReadInsert(d) ==
  /\ marking[d].pc = "insert"
  /\ read' = IF \A b \in marking[d].ids : news[b].state = "posted"
             THEN read \cup (marking[d].ids \X {d}) ELSE read
  /\ marking' = [marking EXCEPT ![d] = NoMark]
  /\ UNCHANGED <<news, addressed, altered, moved, castVars, driver>>

-----------------------------------------------------------------------------
(* OnboardingService.patchProfile is the only writer of an existing        *)
(* driver's zone: of one whose application is open, and, when its check    *)
(* came before the review, of an approved one too.                         *)
UpdateZone(d, z) ==
  /\ driver[d].zone # z
  /\ driver' = [driver EXCEPT ![d].zone = z]
  /\ altered' = altered \cup {d}
  /\ addressed' = addressed \cup
       {<<b, d>> : b \in {n \in News : news[n].state = "posted" /\ news[n].audience = "zone"
                                         /\ news[n].key = z}}
  /\ moved' = moved \cup {<<b, d>> : b \in {n \in marking[d].ids : marking[d].pc = "find"}}
  /\ UNCHANGED <<news, read, marking, castVars>>

(* Approval, suspension and reactivation, and a rejection written over an   *)
(* approval.                                                                *)
ChangeStanding(d) ==
  /\ driver' = [driver EXCEPT ![d].live = ~@]
  /\ UNCHANGED <<listVars, castVars>>

NewsInit ==
  /\ driver \in [Drivers -> [zone : Zones \cup {NoValue}, live : {TRUE}]]
  /\ cast = [b \in News |-> NoCast]
  /\ news = [b \in News |-> NoNews]
  /\ read = {}
  /\ marking = [d \in Drivers |-> NoMark]
  /\ notified = {} /\ addressed = {} /\ altered = {} /\ moved = {} /\ aborted = {}

NewsNext ==
  \/ \E b \in News :
       \/ SendDriverBroadcast(b) \/ BroadcastStored(b) \/ BroadcastDies(b)
       \/ UpdateAdminDriverNews(b) \/ DeleteAdminDriverNews(b)
       \/ \E d \in Drivers : Notify(b, d)
  \/ \E d \in Drivers :
       \/ MarkRead(d) \/ MarkReadFind(d) \/ MarkReadInsert(d) \/ ChangeStanding(d)
       \/ \E z \in Zones \cup {NoValue} : UpdateZone(d, z)

NewsSpec == NewsInit /\ [][NewsNext]_newsVars

-----------------------------------------------------------------------------
(* Properties.                                                             *)

(* Rows and requests are well formed; a row names the zone or the driver   *)
(* its audience speaks of.                                                 *)
NewsTypeOK ==
  /\ driver \in [Drivers -> [zone : Zones \cup {NoValue}, live : BOOLEAN]]
  /\ \A b \in News : <<news[b].audience, news[b].key>> \in Targets
                       /\ <<cast[b].audience, cast[b].key>> \in Targets
                       /\ cast[b].todo \subseteq Drivers
  /\ read \subseteq News \X Drivers /\ moved \subseteq News \X Drivers
  /\ marking \in [Drivers -> [pc : {"idle", "find", "insert"}, zone : Zones \cup {NoValue},
                              ids : SUBSET News]]

(* News a driver was told of is on its list once the broadcast is over,    *)
(* unless the broadcast died, or the row or the driver's zone changed.     *)
NotifiedIsListed ==
  \A b \in News, d \in Drivers :
     <<b, d>> \in notified /\ cast[b].pc = "done" =>
        \/ b \in aborted \cup altered \/ d \in altered
        \/ news[b].state = "gone" \/ Visible(b, d)

(* Nothing is marked read, and so taken off the badge, that was never on   *)
(* that driver's list, whatever ids the app sends and whoever edits;       *)
(* unless the driver moved to another zone when the request that asked for *)
(* it had read the old one and not yet looked for the rows.                *)
ReadWasAddressed == read \subseteq addressed \cup moved

(* Being told, being listed and being read concern the same drivers.       *)
AudienceRight == NotifiedIsListed /\ ReadWasAddressed
=============================================================================
