------------------------------ MODULE MCAlarms ------------------------------
(* One stack whose function gets an alarm "errors" and a custom one, plus a  *)
(* composite alarm, and a bare CfnAlarm in another stack.                    *)
EXTENDS AlarmPolicies, TLC

D(key, constructId, name) == [key |-> key, constructId |-> constructId, name |-> name]
C(id, defs) == [scope |-> "s1", id |-> id, defs |-> defs]
MCAlarmCalls == {
  C("fn", <<D("errors", NoId, NoName), D("mine", <<"errorsAlarm">>, <<"mine">>)>>),
  C("fn", <<D("errors", NoId, NoName), D("Errors", <<"upper">>, NoName), D("errors", <<"again">>, NoName)>>),
  C("fn", <<D("Errors", NoId, NoName), D("errors", NoId, NoName)>>),
  C("a/b/c/d/e/f", <<D("mine", <<"errorsAlarm">>, <<"mine">>), D("errors", NoId, NoName)>>),
  C("fn", <<D("mine", <<>>, NoName)>>)}
DuplicateCalls == {C("fn", <<D("errors", NoId, NoName), D("errors", NoId, NoName)>>)}
MCDerived == [k \in {"errors", "Errors", "mine"} |-> IF k = "mine" THEN "Mine" ELSE "Errors"]
MCSlug == ("errors" :> <<"errors">>) @@ ("Errors" :> <<"errors">>) @@ ("mine" :> <<"mine">>)
            @@ ("fn" :> <<"fn">>) @@ ("a/b/c/d/e/f" :> <<"a", "b", "c", "d", "e", "f">>)

Errs == <<"s1", <<"fn", "Errors">>>>
Mine == <<"s1", <<"errorsAlarm">>>>
Upper == <<"s1", <<"upper">>>>
Again == <<"s1", <<"again">>>>
Sev == <<"s1", <<"sev">>>>
Raw == <<"s2", <<"raw">>>>
MCUserAlarms == (Sev :> NoName) @@ (Raw :> <<"raw">>)
MCOrders == {<<Errs, Sev, Raw, Mine, Upper, Again>>, <<Raw, Mine, Upper, Again, Sev, Errs>>}
MCTextOf == [a \in {Errs, Mine, Upper, Again, Sev, Raw} |->
               CASE a = Errs -> [form |-> "lazy", ascii |-> FALSE]
                 [] a = Mine -> [form |-> "lazy", ascii |-> TRUE]
                 [] a = Sev -> [form |-> "intrinsic", ascii |-> FALSE]
                 [] OTHER -> [form |-> "literal", ascii |-> TRUE]]

L(adds, prefix, suffix) ==
  [adds |-> adds, prefix |-> prefix, suffix |-> suffix, scratch |-> NoName]
R(layer, found, only, replace, global) ==
  [adds |-> layer.adds, prefix |-> layer.prefix, suffix |-> layer.suffix,
   scratch |-> layer.scratch, found |-> found, only |-> only, replace |-> replace,
   global |-> global]
Page == <<"alarm", "page">>
Mail == <<"alarm", "mail">>
Clear == <<"ok", "mail">>
None == L(<<>>, <<>>, <<>>)
Everywhere == [a \in {Errs, Mine, Sev, Raw} |-> 3]
MCPolicies == {"team", "gap", "stage", "severity", "repair", "own", "warn", "strict"}
MCPrograms == {<<"team", "gap">>, <<"gap", "team">>, <<"severity", "stage", "repair">>,
               <<"warn", "stage">>, <<"strict", "team">>, <<"stage", "strict">>,
               <<"repair", "own">>, <<"own", "strict">>}
MCKind == [p \in MCPolicies |->
             CASE p \in {"team", "gap"} -> "actions" [] p \in {"stage", "severity"} -> "names" [] OTHER -> "text"]
MCAt == [p \in MCPolicies |-> IF p = "severity" THEN "s1" ELSE "app"]
MCDefaults == [p \in MCPolicies |->
                 CASE p = "team" -> L(<<Mail, Clear>>, <<>>, <<>>)
                   [] p = "gap" -> L(<<Page>>, <<>>, <<>>)
                   [] p = "stage" -> L(<<>>, <<"prod">>, <<>>)
                   [] p = "severity" -> L(<<>>, <<"team">>, <<"low">>)
                   [] OTHER -> None]
MCRules == [p \in MCPolicies |->
  CASE p = "team" -> <<R(L(<<Page, Mail>>, <<>>, <<>>), (Errs :> 5), "single", FALSE, FALSE),
                       R(L(<<Clear>>, <<>>, <<>>), Everywhere, "composite", TRUE, FALSE)>>
    [] p = "stage" -> <<R(L(<<>>, <<"eu">>, <<"x">>), (Errs :> 5), "any", FALSE, FALSE),
                        R([None EXCEPT !.scratch = <<"raw">>], (Raw :> 1), "any", TRUE, FALSE),
                        R([None EXCEPT !.scratch = <<"mine">>], (Mine :> 1), "any", TRUE, FALSE)>>
    [] p = "severity" -> <<R(L(<<>>, <<>>, <<"high">>), (Mine :> 2), "any", TRUE, FALSE)>>
    [] OTHER -> <<>>]
MCSkip == [p \in MCPolicies |-> p = "gap"]
MCTextModes == [p \in MCPolicies |-> CASE p = "warn" -> "warn" [] p = "strict" -> "throw"
                                         [] p = "own" -> "replace" [] OTHER -> "sanitize"]
MCComposite == {Sev}
MCBare == {Raw}
MCUserActions == {Clear, Page}

\* alarmActionsPolicy(app, { rules: [{ match: /Errors/g, ... }] })
GlobalRules == [p \in MCPolicies |->
  IF p = "team" THEN <<R(L(<<Page>>, <<>>, <<>>), Everywhere, "any", FALSE, TRUE)>> ELSE <<>>]
=============================================================================
