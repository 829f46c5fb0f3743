---------------------------- MODULE CheckoutDoor ----------------------------
(***************************************************************************)
(* `install.sh ... --cli`: install.sh fetches a checkout and replaces       *)
(* itself by that checkout's install.py, which builds the zipapp from what  *)
(* is checked out.  The two share the checkout alone: Bootstrap moves it,   *)
(* CliZipapp builds from it, and this module puts them together.            *)
(***************************************************************************)
EXTENDS Bootstrap, CliZipapp, Integers

CONSTANTS
    Asks,            \* what install.sh is asked for
    MaxEdits         \* how often the world changes between and during runs

(* What a checkout builds is what its working tree holds (build_pyz copies   *)
(* the files).  Without a checkout no install.py runs and there is nothing   *)
(* to build; NoCommit stands for that.                                      *)
ASSUME DoorAssumption ==
    /\ Build = Commit \cup Uncommitted \cup {NoCommit}
    /\ Asks \subseteq Ask
    /\ MaxEdits \in Nat

VARIABLE edits

doorVars == <<bootVars, vars, edits>>

DoorInit ==
    /\ BootInit
    /\ Init
    /\ build = tree
    /\ edits = 0

(* install.sh works on the checkout, or its user does. *)
OnTheCheckout ==
    /\ Change
    /\ build' = tree'
    /\ UNCHANGED <<disk, req, plan, step, staged, outcome>>

(* Git works only while install.py does not: it is one process. *)
Git ==
    /\ \/ \E a \in Asks : Begin(a)
       \/ CloneIt \/ Fetch \/ Checkout \/ Pull \/ GitFails
    /\ OnTheCheckout
    /\ UNCHANGED edits

(* `exec python3 .../install.py "$@"`: the process goes on as install.py.   *)
HandOver(r) ==
    /\ at = "ready"
    /\ at' = "rest"
    /\ UNCHANGED <<remote, home, tree, ask, given, edits>>
    /\ Refuse(r) \/ Accept(r)

Install ==
    /\ UNCHANGED <<bootVars, edits>>
    /\ Apply \/ Abort \/ Kill

World ==
    /\ edits < MaxEdits
    /\ edits' = edits + 1
    /\ \/ RemoteMoves /\ UNCHANGED vars
       \/ UserMovesHome /\ OnTheCheckout
       \/ at = "rest" /\ User /\ UNCHANGED bootVars

DoorNext ==
    \/ Git
    \/ \E r \in Requests : HandOver(r)
    \/ Install
    \/ World

DoorSpec == DoorInit /\ [][DoorNext]_doorVars

-----------------------------------------------------------------------------
(* Properties *)

(* A run that exits 0 has brought the checkout to what it was asked for and  *)
(* installed that, whatever earlier runs left it at: with --ref the commit   *)
(* the ref was at when git was asked, without it the branch's tip or the     *)
(* user's commits on top of it, in place what is checked out.  A pinned      *)
(* checkout is not taken for the latest release.                            *)
(* It holds of HEAD always, and of the installed build when the files are    *)
(* those of HEAD.  They need not be: install.sh asks git for no clean tree,  *)
(* so a run installs, as they are, edits that git carried over and the       *)
(* halves that a run which broke off has left.                              *)
InstalledIsWhatWasAsked ==
    Untouched /\ at = "rest" /\ outcome = "ok" /\ req.verb = "install" =>
        /\ given \in Ancestors[home.head]
        /\ ask.ref # Latest \/ ask.inPlace => home.head = given
        /\ tree = home.head => file.bytes.of = home.head
        /\ record = file.bytes
=============================================================================
