------------------------------ MODULE MCStartup ------------------------------
(* A small file system, environments and command lines for TLC: the same        *)
(* directory under two paths (main scans ../lib next to the executable, and      *)
(* ./build/lib), one that does not exist, two versions of a plugin of one name,  *)
(* a library that is no plugin, a file that is no library, and two plugins       *)
(* whose names differ only in separators.                                        *)
EXTENDS Startup, TLC

MCPaths == {"lib/qa", "build/qa", "build/misc", "build/broken", "plugins/qa", "plugins/sum",
            "extra/qa"}
MCLibs == {"qa", "misc", "other_qa", "old_qa", "sum"}
MCLibOf == ("lib/qa" :> "qa") @@ ("build/qa" :> "qa") @@ ("build/misc" :> "misc")
           @@ ("build/broken" :> None) @@ ("plugins/qa" :> "other_qa")
           @@ ("plugins/sum" :> "sum") @@ ("extra/qa" :> "old_qa")
MCComplete == {"qa", "other_qa", "old_qa", "sum"}
MCDirs == {<<"lib">>, <<"build">>, <<"plugins">>, <<"extra">>}
MCDefaultDirs == <<<<"bin">>, <<"lib">>, <<"build">>, <<"plugins">>>>
MCPlainFiles == {<<"README.md">>}
MCEntries == (<<"lib">> :> {"lib/qa"})
             @@ (<<"build">> :> {"build/qa", "build/misc", "build/broken"})
             @@ (<<"plugins">> :> {"plugins/qa", "plugins/sum"})
             @@ (<<"extra">> :> {"extra/qa"})
MCNameOf == ("qa" :> "qa-plugin") @@ ("misc" :> "none") @@ ("other_qa" :> "qa_plugin")
            @@ ("old_qa" :> "qa-plugin") @@ ("sum" :> "summary")
MCNameOrder == <<"none", "qa-plugin", "qa_plugin", "summary">>
MCNormal == ("none" :> "none") @@ ("qa-plugin" :> "qaplugin") @@ ("qa_plugin" :> "qaplugin")
            @@ ("QA_Plugin" :> "qaplugin") @@ ("summary" :> "summary") @@ ("unknown" :> "unknown")
            @@ ("extra/qa" :> "extra/qa") @@ ("build/misc" :> "build/misc")

\* ".env" has a comment, a gap in the numbers, a line that is overruled, blanks,
\* an empty value, and lines that assign nothing.
MCFiles == (".env" :> <<<<"#", "LLM_05", "=", "x">>, <<>>, <<"note">>, <<" ", "=", "x">>,
                        <<"LLM_10", "=", "last">>, <<" ", "LLM_01", " ", "=", " ", "a">>,
                        <<"LLM_02", "=">>, <<"LLM_01", "=", "b", " ", "#", "c">>,
                        <<"PLUGINS_DIR", "=", "extra", " ">>, <<"LLM_ENDPOINT", "=", " ">>,
                        <<"OPENROUTER_API_KEY", "=", "k", "=", "#", "k">>>>)
           @@ ("old.env" :> <<<<"LLM_1", "=", "a">>, <<"PLUGINS_DIR", "=">>>>)
           @@ ("odd.env" :> <<<<"PLUGINS_DIR", "=", "README.md">>>>)
MCInherited == {<<>>, (<<"LLM_01">> :> <<"z">>) @@ (<<"PLUGINS_DIR">> :> <<"build">>)
                      @@ (<<"LLM_03">> :> <<"y">>)}
MCCommandLines == {<<>>, <<"--list">>, <<".env">>, <<".env", "--list">>,
                   <<".env", "QA_Plugin", "text">>, <<".env", "qa-plugin", "not UTF-8">>,
                   <<"old.env", "unknown", "text">>, <<"old.env", "extra/qa", "text">>,
                   <<"odd.env", "qa-plugin", "text">>, <<"no.env", "build/misc", "text">>}

\* For startup_list: every file is a plugin, and the documented command.
ListEntries == (<<"lib">> :> {"lib/qa"}) @@ (<<"build">> :> {"build/qa"})
               @@ (<<"plugins">> :> {"plugins/qa"}) @@ (<<"extra">> :> {"extra/qa"})
ListCommand == {<<".env", "--list">>}

Symmetry == Permutations(Instances)
=============================================================================
