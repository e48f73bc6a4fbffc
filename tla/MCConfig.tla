------------------------------- MODULE MCConfig -------------------------------
(* An instance of Config for TLC: three routers, two of them the same name in *)
(* the environment, and files and environments that give each setting, leave  *)
(* it out, or give it wrongly.                                                *)
EXTENDS Config

Junk == {}

MCNames == {"home", "Home", "office"}
MCUpper == [r \in MCNames \cup {"no-name"} |->
              CASE r = "office" -> "OFFICE" [] r = "no-name" -> "NO-NAME" [] OTHER -> "HOME"]

Region == [k \in {"region"} |-> "file"]

File(config) == [state |-> "ok", config |-> config]
Missing == [state |-> "missing"]
Broken == [state |-> "broken"]

\* The template has an empty, but present, map of labels in its default section.
MCMainTemplate ==
  File([default |-> [flag |-> {TRUE}, port |-> {DefaultPort}, labels |-> {EmptyMap}],
        routers |-> [r \in {"home"} |-> NoRaw]])
MCSystemTemplate == File([flag |-> {TRUE}, timeout |-> {2}])

MCMainFiles ==
  {MCMainTemplate, Missing, Broken,
   File([default |-> NoRaw,
         routers |-> [r \in {"home", "office"} |->
                        [flag |-> {r = "home"}, port |-> {}, labels |-> {}]]]),
   File([default |-> [flag |-> {FALSE}, port |-> {8729}, labels |-> {Region}],
         routers |-> [r \in MCNames |->
                        IF r = "Home" THEN [flag |-> {TRUE}, port |-> {0}, labels |-> {Region}]
                        ELSE NoRaw]])}
MCSystemFiles ==
  {MCSystemTemplate, Missing, Broken, File([flag |-> {}, timeout |-> {0}]),
   File([flag |-> {FALSE}, timeout |-> {}])}

MCRouterLists == {{}, {<<"home", "office">>}, {<<"home", "Home">>}, {<<"no-name">>}}

Unset == [flag |-> {}, port |-> {}, labels |-> {}]
MCOverrides ==
  {Unset,
   [flag |-> {"true"}, port |-> {Junk}, labels |-> {[k \in {"region"} |-> "env1"]}],
   [flag |-> {"yes"}, port |-> {{65536}}, labels |-> {[k \in {"team"} |-> "env1"]}],
   [flag |-> {"false"}, port |-> {{2}}, labels |-> {EmptyMap}]}

MCEnvironments ==
  {[names |-> list, flag |-> text, timeout |-> number,
    routers |-> [u \in {"HOME", "OFFICE"} |-> IF u = "HOME" THEN home ELSE office]] :
     list \in MCRouterLists, text \in {{}, {"false"}}, number \in {{}, {Junk}, {{7}}},
     home \in MCOverrides, office \in MCOverrides}
=============================================================================
