---------------------------- MODULE MCPluginCache ----------------------------
(***************************************************************************)
(* PluginCache for TLC: archives that are well-formed (executable or not,  *)
(* with a detour in a path) and ones that climb out of the directory, hide *)
(* a link, name an absolute path, put a directory in the binary's place or *)
(* use a name with two dots; checksums in two spellings, none, and two     *)
(* that contradict each other.                                             *)
(***************************************************************************)
EXTENDS PluginCache

Reg(name, x) == [kind |-> "reg", abs |-> FALSE, name |-> name, exec |-> x]
Dir(name)    == [kind |-> "dir", abs |-> FALSE, name |-> name, exec |-> TRUE]
Link(name)   == [kind |-> "link", abs |-> FALSE, name |-> name, exec |-> FALSE]
Abs(name)    == [kind |-> "reg", abs |-> TRUE, name |-> name, exec |-> TRUE]

Releases ==
  [plain |-> <<Reg(<<"plug">>, FALSE)>>,
   ready |-> <<Dir(<<"doc">>), Reg(<<"doc", "..", "plug">>, TRUE)>>,
   climb |-> <<Reg(<<"plug">>, FALSE), Reg(<<"..", "plain", "plug">>, TRUE)>>,
   odd   |-> <<Reg(<<"..a">>, FALSE)>>,
   rooted |-> <<Abs(<<"plug">>)>>,
   links |-> <<Link(<<"plug">>)>>,
   folder |-> <<Dir(<<"plug">>)>>]

Spellings == [s \in {"PLAIN", "local"} \cup DOMAIN Releases |-> IF s = "PLAIN" THEN "plain" ELSE s]
OwnFile   == <<"opt", "plug">>
OwnFiles  == OwnFile :> {"local", "plain"}

Github(p, s) ==
  [type |-> "github", path |-> <<>>, repository |-> <<"fenko", "plugins">>, release |-> "v1",
   asset |-> "tgz", binary |-> <<"plug">>, pluginSum |-> p, sourceSum |-> s]
Own(p, s) == [Github(p, s) EXCEPT !.type = "filesystem", !.path = OwnFile]

SmallSources ==
  {Github("", "plain"), Github("PLAIN", ""), Github("ready", "plain"), Github("", ""),
   Own("", "local"), Own("plain", "local"),
   [Github("", "plain") EXCEPT !.type = "ftp"]}
CrashSources == {Github("", "ready")}

ASSUME RunsAreTidy == CachesApart

One == {"a"}
Two == {"a", "b"}
=============================================================================
