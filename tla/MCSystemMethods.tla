-------------------------- MODULE MCSystemMethods --------------------------
(***************************************************************************)
(* Small instances of SystemMethods.  "swap" removes "work" and adds       *)
(* "extra", "work" throws a ServerErrorFault, "extra" std::out_of_range.   *)
(* Two scopes: in "lives" two objects come and go, the application uses a  *)
(* system name and hides any name; in "batches" one object serves lists of *)
(* calls on every registry the application makes with names of its own.    *)
(***************************************************************************)
EXTENDS SystemMethods

CONSTANTS app, o1, o2

VARIABLE scope

MCObjects == {o1, o2}
MCAppNames == {"swap", "work", "extra", SYSTEM_LISTMETHODS}
MCNames == {"swap", "work", "extra"} \cup ToSet(Bound(TRUE))

Does(arity, removes, adds, throws, code) ==
  [arity |-> arity, removes |-> removes, adds |-> adds, throws |-> throws,
   code |-> code]

MCBehaviour ==
  [n \in MCNames |->
     CASE n = "swap"  -> Does(0, {"work"}, {"extra"}, "nothing", 0)
       [] n = "work"  -> Does(1, {}, {}, "server_error", -32050)
       [] n = "extra" -> Does(0, {}, {}, "out_of_range", 0)
       [] OTHER       -> Does(0, {}, {}, "nothing", 0)]

CallAbout(name, params, about) ==
  [isStruct |-> TRUE, name |-> name, params |-> params, about |-> about]
Call(name, params) == CallAbout(name, params, Missing)
MCCalls ==
  {Call("swap", 0), Call("work", 1), Call("extra", 0),
   Call(SYSTEM_LISTMETHODS, 0), Call(SYSTEM_MULTICALL, NoParams),
   CallAbout(SYSTEM_METHODSIGNATURE, 1, "extra"),
   CallAbout(SYSTEM_METHODHELP, 1, "work"),
   Call(Missing, 1), Call(NotAString, 1), Call("work", NotAnArray),
   [Call("work", 1) EXCEPT !.isStruct = FALSE]}

MCInit == Init /\ scope \in {"lives", "batches"}

InScope ==
  scope = "batches" =>
    /\ object[o2] = "unborn"
    /\ \A n \in DOMAIN myMethods :
         /\ myMethods[n].owner = App => n # SYSTEM_LISTMETHODS
         /\ myMethods[n].hidden => n = "work"

MCNext ==
  /\ RegistryNext \/ (scope = "batches" /\ MulticallNext)
  /\ UNCHANGED scope
  /\ InScope'

MCSpec == MCInit /\ [][MCNext]_<<vars, scope>>
=============================================================================
