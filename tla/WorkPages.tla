------------------------------ MODULE WorkPages ------------------------------
(***************************************************************************)
(* A visit to one part of the site: a creation page, the task center and   *)
(* its job pages, the library, the records a user keeps, or the community. *)
(* The parts share the way they cache what they load, and nothing else;    *)
(* what one does reaches another only as a change "elsewhere".             *)
(***************************************************************************)
EXTENDS CreatePages, TaskPages, LibraryPages, ShelfPages, CommunityPages

VARIABLE scene         \* the part that is visited

workVars == <<scene, createVars, taskVars, libraryVars, shelfVars, communityVars>>
Scenes == {"create", "tasks", "library", "shelf", "community"}

(* The parts that are not visited start in one of their states. *)
Resting ==
    /\ scene # "create" => reviewing = CHOOSE r \in DialogPages : TRUE
    /\ scene # "tasks" => LET v == CHOOSE v \in StartVisits : TRUE IN state = v.state /\ where = v.where
    /\ scene # "library" => In("trash") = CHOOSE t \in StartTrash : TRUE
    /\ scene # "shelf" => there = (CHOOSE s \in StartShelves : TRUE) /\ member = [c \in Characters |-> Nothing]

Init == /\ scene \in Scenes
        /\ CreateInit /\ TaskInit /\ LibraryInit /\ ShelfInit /\ CommunityInit
        /\ Resting

InCreate == scene = "create" /\ CreateNext /\ UNCHANGED <<scene, taskVars, libraryVars, shelfVars, communityVars>>
InTasks == scene = "tasks" /\ TaskNext /\ UNCHANGED <<scene, createVars, libraryVars, shelfVars, communityVars>>
InLibrary == scene = "library" /\ LibraryNext /\ UNCHANGED <<scene, createVars, taskVars, shelfVars, communityVars>>
InShelf == scene = "shelf" /\ ShelfNext /\ UNCHANGED <<scene, createVars, taskVars, libraryVars, communityVars>>
InCommunity == scene = "community" /\ CommunityNext /\ UNCHANGED <<scene, createVars, taskVars, libraryVars, shelfVars>>
Next == InCreate \/ InTasks \/ InLibrary \/ InShelf \/ InCommunity

Spec == Init /\ [][Next]_workVars /\ CreateFairness /\ TaskFairness

TypeOK == /\ scene \in Scenes
          /\ CreateTypeOK /\ TaskTypeOK /\ LibraryTypeOK /\ ShelfTypeOK /\ CommunityTypeOK

(* What happens to a job, an asset or a work is what its user asked for on *)
(* it, though dialogs, lists and the objects under them change in between. *)
NothingUnasked ==
    /\ TypeOK
    /\ ActsWhereOpened
    /\ EmptiesWhatIsShown /\ UndoesItsDelete /\ PublishedOnPurpose /\ CancelledMakesNoAsset
    /\ LikesAsPressed

(* The pages come back to offering a price and to showing a job's end,     *)
(* whatever was refused, lost or disconnected on the way.                  *)
PagesComeBack == PriceComesBack /\ PollsWhileDown
=============================================================================
