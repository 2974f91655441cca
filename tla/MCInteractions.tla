--------------------------- MODULE MCInteractions ---------------------------
(* One ask of any type: forms and pages, and requests for a permission by a  *)
(* member with two ancestors, the nearest of whom also answers.              *)
EXTENDS Callbacks, TLC

CONSTANTS k1, k2

MCCaller == (k1 :> 0) @@ (k2 :> 2)

Rule(effect, operations, roots, command, env) ==
  [effect |-> effect, operations |-> operations, roots |-> roots,
   command |-> command, env |-> env]

Reads  == Rule("allow_once", {"read"}, {}, None, None)
Runs   == Rule("allow_once", {"execute"}, {}, "tool", None)
Never  == Rule("deny", {"execute"}, {"home"}, "tool", None)
Hidden == Rule("deny", {"read", "write"}, {"secret"}, None, None)

Member(rules, cwd, more) == [rules |-> rules, cwd |-> cwd, more |-> more]

Execute(env) == [operation |-> "execute", paths |-> {{"home", "team"}},
                 command |-> "tool", env |-> env]
Look(path)   == [operation |-> "read", paths |-> {path}, command |-> None, env |-> None]

Kind(type, timed, request, options, chain) ==
  [type |-> type, timed |-> timed, request |-> request, options |-> options,
   chain |-> chain]

\* The rules of the member, of its parent and of the parent's parent.
Chain(own, parent, top) ==
  <<Member(own, "home", {}), Member(parent, "team", {}), Member(top, "team", {})>>

Asks ==
  {Kind(type, TRUE, None, {}, <<>>) : type \in {"form", "url"}}

Host(timed, env, own, top) ==
  Kind("host", timed, Execute(env), {}, Chain(own, <<Runs>>, top))

Hosts ==
  {Host(TRUE, None, <<>>, <<Runs>>)} \cup
  {Host(FALSE, None, <<Runs>>, top) : top \in {<<Runs>>, <<>>, <<Never>>}} \cup
  {Host(FALSE, None, <<Never, Runs>>, <<Runs>>), Host(FALSE, {"path"}, <<Runs>>, <<Runs>>)}

Agents ==
  {Kind("permission", FALSE, request, options, Chain(<<Reads>>, parent, <<Hidden, Reads>>)) :
     request \in {None, Look({"home", "team"}), Look({"home", "team", "secret"})},
     parent \in {<<Reads>>, <<>>},
     options \in {{"allow_once", "reject_once"}, {"allow_always"}}}

Alone ==
  {Kind("host", FALSE, Look({"other"}), {}, <<Member(<<Reads>>, "home", {"other"})>>)}

MCKinds == Asks \cup Hosts \cup Agents \cup Alone
=============================================================================
