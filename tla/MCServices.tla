------------------------------ MODULE MCServices ------------------------------
(***************************************************************************)
(* The smaller services for TLC.  They share no row: a behaviour picks one *)
(* and the others stand still at an initial state of theirs.               *)
(***************************************************************************)
EXTENDS TenantMembership, TLC

CONSTANTS
  t1, x, m1, m2,  \* a tenant, its slug, two users
  Sockets, Items, Marks, Flags, Keys, Texts, Uploads, Allowed, Requests,
  Hooks, Events, MaxRetries, RejectionEndsProcess, InitialHooks,
  Clients, MaxRestarts, FileFaults, HookFaults,  \* users with sockets; bounds
  NoFlag, NoCall, NoRequest, NoItem
VARIABLES
  socket, connectedUsers, items, create, mark, marked, restarts,  \* notifications
  flags, flagCall, used, updated,                                 \* feature flags
  files, fileRows, known, request, fileFaults,                    \* file upload
  hooks, delivery, triggered, logs, sent, faults,                 \* webhooks
  scenario

-----------------------------------------------------------------------------
(* Tenants and users *)

Tenant(slug, max) == [slug |-> slug, maxUsers |-> max, deleted |-> FALSE]
OneTenant == [t \in Tenants |-> IF t = t1 THEN Tenant(x, 1) ELSE NoTenant]
Outsiders == [u \in Users |-> [tenant |-> NoTenant, deleted |-> FALSE, joined |-> FALSE]]
NoTenants == [t \in Tenants |-> NoTenant]
Unregistered == [u \in Users |-> NoUser]

\* Users come and go while the capacity of their tenant changes.
Capacity == INSTANCE TenantMembership
  WITH InitialUsers <- Outsiders,
       Offered <- {"join", "leave", "updateTenant", "moveUser", "removeUser",
                   "restoreUser"}
\* Tenants are created, deleted and restored while users are created and join.
Tenancy == INSTANCE TenantMembership
  WITH InitialTenants <- NoTenants, InitialUsers <- Unregistered,
       Users <- {m1, m2}, Capacities <- {1},
       Offered <- {"createTenant", "updateTenant", "removeTenant", "restoreTenant",
                   "join", "leave", "createUser"}

-----------------------------------------------------------------------------
(* Notifications, flags, files and webhooks *)

notifications == <<socket, connectedUsers, items, create, mark, marked, restarts>>
Hub == INSTANCE NotificationHub
  WITH Users <- Clients

flagging == <<flags, flagCall, used, updated>>
Flagging == INSTANCE FeatureFlags
  WITH call <- flagCall

filing == <<files, fileRows, known, request, fileFaults>>
Filing == INSTANCE FileUploads
  WITH Items <- Uploads, MaxFaults <- FileFaults, rows <- fileRows, faults <- fileFaults

\* Two deliveries of one webhook that is yet to be created.
webhooks == <<hooks, delivery, triggered, logs, sent, faults>>
NoHooks == [h \in Hooks |-> [status |-> "unborn", isActive |-> FALSE, events |-> {},
                            failureCount |-> 0]]
Webhooks == INSTANCE WebhookDelivery
  WITH MaxFaults <- HookFaults

\* What stands for nothing is neither a row nor an id, and no webhook starts
\* charged with failures.
ASSUME ServicesAssumption ==
  /\ NoItem \notin Items \cup Hub!Item
  /\ NoFlag \notin Flagging!Row /\ NoCall \notin Flagging!Call /\ Texts # {}
  /\ NoRequest \notin Filing!Request
  /\ MaxRestarts \in Nat /\ FileFaults \in Nat /\ HookFaults \in Nat
  /\ MaxRetries \in Nat /\ RejectionEndsProcess \subseteq BOOLEAN
  /\ InitialHooks \in [Hooks -> Webhooks!Hook]
  /\ \A h \in Hooks : InitialHooks[h].failureCount = 0

-----------------------------------------------------------------------------
\* Handlers and events are interchangeable: no definition names one.
ServiceSymmetry == Permutations(Calls) \cup Permutations(Events)

members == vars

ScenarioInit ==
  /\ scenario \in {"capacity", "tenancy", "notifications", "flags", "files",
                   "webhooks"}
  /\ IF scenario = "capacity" THEN Capacity!Init ELSE Tenancy!Init
  /\ Hub!Init /\ Flagging!Init /\ Filing!Init /\ Webhooks!Init

ScenarioNext ==
  /\ \/ /\ \/ scenario = "capacity" /\ Capacity!Next
           \/ scenario = "tenancy" /\ Tenancy!Next
        /\ UNCHANGED <<notifications, flagging, filing, webhooks>>
     \/ /\ scenario = "notifications" /\ Hub!Next
        /\ UNCHANGED <<members, flagging, filing, webhooks>>
     \/ /\ scenario = "flags" /\ Flagging!Next
        /\ UNCHANGED <<members, notifications, filing, webhooks>>
     \/ /\ scenario = "files" /\ Filing!Next
        /\ UNCHANGED <<members, notifications, flagging, webhooks>>
     \/ /\ scenario = "webhooks" /\ Webhooks!Next
        /\ UNCHANGED <<members, notifications, flagging, filing>>
  /\ UNCHANGED scenario
all == <<members, notifications, flagging, filing, webhooks, scenario>>
ScenarioSpec == ScenarioInit /\ [][ScenarioNext]_all

-----------------------------------------------------------------------------
\* The types of the services: see TenantMembership, NotificationHub,
\* FeatureFlags, FileUploads and WebhookDelivery.
ServicesTypeOK ==
  /\ TypeOK /\ Hub!TypeOK /\ Flagging!TypeOK /\ Filing!TypeOK /\ Webhooks!TypeOK

\* NotificationsGateway and NotificationsService: see NotificationHub.
OnlineIffConnected == Hub!OnlineIffConnected
NothingMissed == Hub!NothingMissed
CountedOnce == Hub!CountedOnce

\* FeatureFlagsService: see FeatureFlags.
UpdateStands == Flagging!UpdateStands

\* FileUploadService: see FileUploads.
OrphansExplained == Filing!OrphansExplained
FilesSpec == Filing!FilesSpec

\* deliverWebhook(): see WebhookDelivery.
DuplicatesExplained == Webhooks!DuplicatesExplained
OutcomesExplained == Webhooks!OutcomesExplained
=============================================================================
