-------------------------------- MODULE Views --------------------------------
(***************************************************************************)
(* The pages of the web application, one at a time: a page is mounted with *)
(* its state anew, and a page that is left changes nothing any more.       *)
(***************************************************************************)
EXTENDS UsersView, ControllersView, MachinesView, MembersView

CONSTANT MaxHandlers     \* how many handlers are started on each page, once it is loaded

VARIABLE at             \* the page that is mounted

views == <<page, hiding, planets, machines, members, at>>

Pages == {"users", "controllers", "machines", "members"}

ASSUME HandlersAssumption == MaxHandlers \in [Pages -> Nat]

VInit ==
    /\ at \in Pages /\ left = MaxHandlers[at]
    /\ PageInit /\ UsersInit /\ ControllersInit /\ MachinesInit /\ MembersInit
    /\ at # "controllers" => \A c \in Items : planet[c] = None
    /\ at # "users" => stored = [u \in Items |-> {}]
    /\ at # "members" => \A m, n \in Items : name[m] = name[n]

VNext ==
    /\ UNCHANGED at
    /\ \/ at = "users" /\ UsersNext /\ UNCHANGED <<planets, machines, members>>
       \/ at = "controllers" /\ ControllersNext /\ UNCHANGED <<hiding, machines, members>>
       \/ at = "machines" /\ MachinesNext /\ UNCHANGED <<hiding, planets, members>>
       \/ at = "members" /\ MembersNext /\ UNCHANGED <<hiding, planets, machines>>

VSpec == VInit /\ [][VNext]_views
-----------------------------------------------------------------------------
Flags == {"none", "loading", "saving", "hiddenLoading", "hiddenSaving", "exporting", "importing",
          "delete", "deletePlanet", "rotate", "testing", "downloading", "uploading", "linkLoading",
          "sshTesting", "zerotierChecking", "zerotierAction", "switching", "authUpdating"}
Kinds == {"create", "reset", "hidden", "save", "export", "import", "delete", "deletePlanet",
          "rotate", "url", "switch", "logs", "rename"}

VTypeOK ==
    /\ \A k \in Slots : call[k].at \in {"none", "asked", "ok", "failed"}
                        /\ call[k].of \in Items \cup Controllers \cup {None}
                        /\ call[k].flag \in Flags \cup {None}
    /\ left \in 0..MaxHandlers[at] /\ broken \in 0..MaxFaults
    /\ version \in Nat /\ table \in 0..version /\ seen \in 0..version /\ overlapped \in BOOLEAN
    /\ modals \subseteq [kind : Kinds, of : Items \cup {None}] /\ busy \subseteq Flags
    /\ stored \in [Items -> SUBSET Nets] /\ keys \subseteq Nets /\ keysOf \in Items \cup {None}
    /\ picker \in Items \cup {None} /\ pendingPlanet \in Items \cup {None}
    /\ planet \in [Items -> Items \cup {None}] /\ gone \subseteq Items \cup Controllers \cup {None}
    /\ link \in [Items -> 0..issued] /\ issued \in Nat
    /\ controllerId \in Controllers \cup {None} /\ networkId \in AllNets \cup {None}
    /\ listed \subseteq AllNets
    /\ logs \in Items \cup {None} /\ selected \in Items \cup {None} /\ logsLoading \in BOOLEAN
    /\ name \in [Items -> Names] /\ had \in [Items -> SUBSET Names] /\ late \subseteq Items \X Names
    /\ renameMember \in Items \cup {None}

\* What a page shows and sends is of the row it was opened for: the hidden networks of the
\* users' page, the planet and the link of the controllers', the network and the log of the
\* test machines'.  Except where answers for two rows crossed, a removal crossed the link of
\* what it removed, or logs failed to load over rows of another machine.
ActsOnItsTarget ==
    KeysAreTargets /\ PlanetIsTheChosen /\ ShownLinkIsLive /\ SwitchIsListed /\ LogIsTargets
=============================================================================
