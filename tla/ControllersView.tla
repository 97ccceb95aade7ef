--------------------------- MODULE ControllersView ---------------------------
(***************************************************************************)
(* The page of controllers (views/controllers/index.vue): its forms, the   *)
(* file picker of planets, and the modal with a planet's download link.    *)
(***************************************************************************)
EXTENDS Page

VARIABLES
    picker,         \* the row the file picker was opened for, while it is open
    pendingPlanet,  \* pendingPlanetControllerId
    planet,         \* at the server: the row the file of each controller was picked for
    gone,           \* at the server: the controllers that were deleted
    link,           \* at the server: the number of each controller's download link, or 0
    issued,         \* how many links were made: each has a number of its own
    url,            \* planetDownloadUrl: a controller and the number of its link
    linkAlone       \* history: no other call for a link, and no removal of what the link
                    \* is of, crossed the one that is shown or under way

planets == <<picker, pendingPlanet, planet, gone, link, issued, url, linkAlone>>
filing == <<picker, pendingPlanet, planet, gone>>
linking == <<link, issued, url, linkAlone>>

ControllersInit ==
    /\ picker = None /\ pendingPlanet = None
    /\ planet \in {p \in [Items -> Items \cup {None}] : \A c \in Items : p[c] \in {None, c}}
    /\ gone = {} /\ link = [c \in Items |-> 0] /\ issued = 0
    /\ url = None /\ linkAlone = TRUE

OpenModal(kind, of) == Opens(kind, of) /\ UNCHANGED <<call, left, broken, rows, busy, planets>>
OpenForm(c) == OpenModal("save", c)
OpenExport == "exporting" \notin busy /\ OpenModal("export", None)
OpenImport == "importing" \notin busy /\ OpenModal("import", None)

\* Modal.confirm: before a controller, its planet or its link is given up.  The row that
\* enables a button of the menu may be older than the server's.
ConfirmDelete(c) == OpenModal("delete", c)
ConfirmDeletePlanet(c) == OpenModal("deletePlanet", c)
ConfirmRotate(c) == OpenModal("rotate", c)

SaveController(k, c) == Submits(k, "save", c, None, "saving") /\ UNCHANGED planets
Export(k) == Submits(k, "export", None, None, "exporting") /\ UNCHANGED planets
Import(k) == Submits(k, "import", None, None, "importing") /\ UNCHANGED planets
Delete(k, c) == Agrees(k, "delete", c) /\ UNCHANGED planets
DeletePlanet(k, c) == Agrees(k, "deletePlanet", c) /\ UNCHANGED planets
TestController(k, c) == Presses(k, "test", c, "testing") /\ UNCHANGED planets
DownloadPlanet(k, c) == Presses(k, "download", c, "downloading") /\ UNCHANGED planets

ControllerReturns(k) ==
    /\ \/ Returns(k, "save", "ok") \/ Returns(k, "import", "ok")
       \/ AgreedReturns(k, "delete") \/ AgreedReturns(k, "deletePlanet")
       \/ Returns(k, "test", "always")
       \/ Returns(k, "export", "never") \/ Returns(k, "download", "never")
    /\ UNCHANGED planets

\* The server has not got the controller any more, or no file of it to give, link or remove.
Refused(k) ==
    \/ call[k].of \in gone
    \/ /\ call[k].op \in {"download", "link", "rotate", "deletePlanet"}
       /\ call[k].of \in Items /\ planet[call[k].of] = None
ServeRefused(k) == Refused(k) /\ call[k].op # "load" /\ Refuses(k) /\ UNCHANGED planets

ServeController(k) ==
    /\ \/ ~ Refused(k) /\ ServeWrite(k, {"save", "import", "test"})
       \/ ~ Refused(k) /\ ServeRead(k, {"export", "download"}, None)
       \/ ServeLoad(k) \/ ServeFault(k)
    /\ UNCHANGED planets

LinkCalls == UnderWay("link") \cup UnderWay("rotate")
LinkShown == IsOpen("url", None)

\* The planet of a controller goes, alone or with the controller, and the link with it.
ServeRemoval(k) ==
    /\ ~ Refused(k) /\ ServeWrite(k, {"delete", "deletePlanet"})
    /\ planet' = [planet EXCEPT ![call[k].of] = None]
    /\ gone' = IF call[k].op = "delete" THEN gone \cup {call[k].of} ELSE gone
    /\ link' = [link EXCEPT ![call[k].of] = 0]
    /\ linkAlone' = /\ linkAlone
                    /\ \A j \in LinkCalls : call[j].of # call[k].of
                    /\ LinkShown => url[1] # call[k].of
    /\ UNCHANGED <<picker, pendingPlanet, issued, url>>
-----------------------------------------------------------------------------
OpenPlanetPicker(c) ==
    /\ Unmasked /\ picker = None
    /\ picker' = c /\ pendingPlanet' = c
    /\ UNCHANGED <<page, planet, gone, linking>>

\* The picker is left without a file: nothing is told to the page.
LeavePicker ==
    /\ picker # None /\ picker' = None
    /\ UNCHANGED <<page, pendingPlanet, planet, gone, linking>>

\* A file that is empty or too big, or whose controller is no longer noted, is left.
PlanetRejected ==
    /\ picker # None /\ picker' = None /\ pendingPlanet' = None
    /\ UNCHANGED <<page, planet, gone, linking>>

\* Mutant of UploadTarget: the controller of an upload that is under way comes first.
UploadTargetBusy ==
    IF UnderWay("upload") = {} THEN pendingPlanet ELSE call[CHOOSE k \in UnderWay("upload") : TRUE].of

UploadTarget == pendingPlanet

PlanetSelected(k) ==
    /\ picker # None /\ picker' = None
    /\ UploadTarget # None
    /\ Asks(k, Request("upload", UploadTarget, picker, "uploading"))
    /\ busy' = busy \cup {"uploading"}
    /\ UNCHANGED <<rows, modals, pendingPlanet, planet, gone, linking>>

ServeUpload(k) ==
    /\ ~ Refused(k) /\ ServeWrite(k, {"upload"})
    /\ planet' = [planet EXCEPT ![call[k].of] = call[k].arg]
    /\ UNCHANGED <<picker, pendingPlanet, gone, linking>>

\* An upload that is over, at once or after the table was loaded, forgets the controller
\* that is noted by then, perhaps that of a picker opened meanwhile.
UploadReturns(k) ==
    /\ Returns(k, "upload", "ok")
    /\ pendingPlanet' = IF Good(k) THEN pendingPlanet ELSE None
    /\ UNCHANGED <<picker, planet, gone, linking>>

ControllersReturn(k) ==
    /\ LoadReturns(k)
    /\ pendingPlanet' = IF call[k].flag = "uploading" THEN None ELSE pendingPlanet
    /\ UNCHANGED <<picker, planet, gone, linking>>
-----------------------------------------------------------------------------
\* The menu of a row, and the confirmation of a rotation.
GetLink(k, c) ==
    /\ Presses(k, "link", c, "linkLoading")
    /\ linkAlone' = (LinkCalls = {})
    /\ UNCHANGED <<filing, link, issued, url>>

RotateLink(k, c) ==
    /\ Agrees(k, "rotate", c)
    /\ linkAlone' = (LinkCalls = {} /\ (LinkShown => linkAlone))
    /\ UNCHANGED <<filing, link, issued, url>>

\* The link there is, or a new one.
ServeLink(k) ==
    /\ call[k].op \in {"link", "rotate"} /\ ~ Refused(k)
    /\ LET c == call[k].of
           n == IF link[c] = 0 \/ call[k].op = "rotate" THEN issued + 1 ELSE link[c]
       IN  /\ ServeRead(k, {"link", "rotate"}, <<c, n>>)
           /\ link' = [link EXCEPT ![c] = n]
           /\ issued' = IF n > issued THEN n ELSE issued
    /\ UNCHANGED <<filing, url, linkAlone>>

\* The modal shows the link of whichever call was answered last.
LinkReturns(k) ==
    /\ Came(k, "link") \/ Came(k, "rotate")
    /\ Ends(k) /\ busy' = busy \ {call[k].flag}
    /\ url' = IF Good(k) THEN call[k].got ELSE url
    /\ modals' = (modals \ {Agreed(k)})
                    \cup (IF Good(k) THEN {[kind |-> "url", of |-> None]} ELSE {})
    /\ UNCHANGED <<rows, filing, link, issued, linkAlone>>

ControllersNext ==
    \/ OpenExport \/ OpenImport \/ LeavePicker \/ PlanetRejected
    \/ \E d \in modals : Close(d) /\ UNCHANGED planets
    \/ OpenForm(None)
    \/ \E c \in Items :
        \/ OpenForm(c) \/ ConfirmDelete(c) \/ ConfirmDeletePlanet(c) \/ ConfirmRotate(c)
        \/ OpenPlanetPicker(c)
    \/ \E k \in Slots :
        \/ Export(k) \/ Import(k) \/ SaveController(k, None)
        \/ \E c \in Items :
            \/ SaveController(k, c) \/ Delete(k, c) \/ DeletePlanet(k, c) \/ TestController(k, c)
            \/ DownloadPlanet(k, c) \/ GetLink(k, c) \/ RotateLink(k, c)
        \/ ControllerReturns(k) \/ ServeController(k) \/ ServeRemoval(k) \/ ServeRefused(k)
        \/ PlanetSelected(k) \/ ServeUpload(k) \/ UploadReturns(k) \/ ControllersReturn(k)
        \/ ServeLink(k) \/ LinkReturns(k)
-----------------------------------------------------------------------------
\* The file a controller has was picked for it, whatever uploads and pickers crossed.
PlanetIsTheChosen == \A c \in Items : planet[c] \in {None, c}

\* The link in the modal is the one the server accepts, if none is under way and nothing
\* crossed it: a link asked for before a rotation may be shown after it, and the removal of
\* the planet, or of the controller, may come while its link is asked for or shown; then
\* the modal shows a dead link.
ShownLinkIsLive == LinkShown /\ linkAlone /\ LinkCalls = {} => url[2] = link[url[1]]
=============================================================================
