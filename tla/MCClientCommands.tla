--------------------------- MODULE MCClientCommands -------------------------
(* Configurations, settings files, agents and command lines for TLC.       *)
EXTENDS ClientCommands

\* More hooks of the one agent and fewer of the other, and another limit; no
\* colors, and the default timeout in another unit; one that is not valid.
Wide  == [Default EXCEPT !.maxVisible = 2, !.timeout = Never,
                         !.hooks["claude"] = [preset |-> "normal", enable |-> {},
                                              disable |-> {"completed"}],
                         !.hooks["codex"].enable = {"started"}]
Plain == [Default EXCEPT !.color = "never", !.timeout = [number |-> 3000, unit |-> "ms"]]
Wrong == [Default EXCEPT !.hooks["codex"] =
            [preset |-> "verbose", enable |-> {"failed"}, disable |-> {"failed"}]]

SomeContents == {Wide, Plain, Wrong, Broken}

SomeEnvironments == {[dumb |-> FALSE, noColor |-> FALSE], [dumb |-> TRUE, noColor |-> FALSE]}

HookRequest(op, work, allow) == [op |-> op, work |-> work, allow |-> allow]

SomeRequests ==
  {HookRequest("install", <<<<"claude", "user">>>>, FALSE),
   HookRequest("install", <<<<"codex", "user">>>>, TRUE),
   HookRequest("remove", <<<<"claude", "user">>>>, FALSE),
   HookRequest("sync", PlacesOf("claude") \o PlacesOf("codex"), FALSE)}

Report(provider, name, type) == <<provider, [name |-> name, type |-> type]>>

SomePlaces == {<<"claude", "user">>}

SomeReports ==
  {Report("claude", "Notification", NeedsInput),
   Report("claude", "PermissionRequest", None), Report("codex", "Stop", None)}

Ms(number) == [number |-> number, unit |-> "ms"]

\* Each option given and left out, with the texts and timeouts that are refused.
SomeSends ==
  LET plain == [title |-> None, message |-> "plain", level |-> "info", priority |-> "normal",
                timeout |-> None, position |-> None, key |-> None,
                attention |-> FALSE, noSource |-> FALSE]
  IN  {plain,
       [plain EXCEPT !.timeout = Never, !.title = "styled", !.level = "error"],
       [plain EXCEPT !.timeout = Ms(0), !.position = "bottom-left", !.key = "styled"],
       [plain EXCEPT !.timeout = [number |-> 25, unit |-> "h"]],
       [plain EXCEPT !.timeout = Error],
       [plain EXCEPT !.attention = TRUE, !.timeout = Ms(5), !.priority = "critical"],
       [plain EXCEPT !.attention = TRUE, !.noSource = TRUE],
       [plain EXCEPT !.key = "hollow"], [plain EXCEPT !.message = "long"]}

SomeUpdates ==
  LET none == [selector |-> [id |-> "id", key |-> None],
               title |-> None, message |-> None, level |-> None, priority |-> None,
               timeout |-> None, position |-> None]
      one  == [none EXCEPT !.level = "success"]
  IN  {none, one, [none EXCEPT !.timeout = Never], [one EXCEPT !.timeout = Never],
       [one EXCEPT !.timeout = Ms(7), !.selector.id = "bad"],
       [none EXCEPT !.timeout = Ms(7), !.selector = [id |-> None, key |-> "styled"]],
       [none EXCEPT !.title = "blank", !.message = "hollow"],
       [none EXCEPT !.position = "top-left", !.timeout = Error]}

SomeCommandLines ==
  {[type |-> "send", args |-> a] : a \in SomeSends} \cup
  {[type |-> "update", args |-> a] : a \in SomeUpdates} \cup
  {[type |-> "dismiss", args |-> [selector |-> s]] :
     s \in {[id |-> "bad", key |-> None], [id |-> None, key |-> "styled"],
            [id |-> None, key |-> "hollow"]}} \cup
  {[type |-> "jump", args |-> [key |-> k]] : k \in {"plain", "blank"}} \cup
  {[type |-> "config-reload", args |-> None]}

\* The History typed in a pane, in a terminal outside, and by a script.
SomeBrowsings ==
  LET pane   == [around |-> "here", named |-> None, input |-> TRUE, output |-> TRUE,
                 answer |-> "yes"]
      other  == [pane EXCEPT !.named = "there"]
      term   == [pane EXCEPT !.around = None, !.answer = "no"]
      script == [pane EXCEPT !.around = None, !.named = "there", !.input = FALSE, !.output = FALSE]
      show   == [clear |-> None, plain |-> FALSE, json |-> FALSE, all |-> FALSE,
                 allServers |-> FALSE]
      clear  == [hidden |-> FALSE, before |-> None, all |-> FALSE, allServers |-> FALSE,
                 yes |-> FALSE]
      old    == [clear EXCEPT !.before = [number |-> 2, unit |-> "d"]]
      typed(args, place) == [type |-> "history", args |-> args, place |-> place]
      clears(c, place)   == typed([show EXCEPT !.clear = c], place)
      jump(server, jumps) ==
        [type |-> "history-jump", args |-> None, source |-> Source("pane", None, None),
         server |-> server, target |-> "here", jumps |-> jumps]
  IN  {typed(show, pane), typed([show EXCEPT !.all = TRUE], other),
       typed([show EXCEPT !.allServers = TRUE], term),
       typed([show EXCEPT !.json = TRUE, !.all = TRUE], pane),
       typed([show EXCEPT !.plain = TRUE, !.allServers = TRUE], term),
       typed([show EXCEPT !.plain = TRUE], term),
       clears(old, pane), clears([old EXCEPT !.allServers = TRUE], term),
       clears([old EXCEPT !.before = Error, !.yes = TRUE], pane),
       clears([clear EXCEPT !.hidden = TRUE], script),
       clears([clear EXCEPT !.all = TRUE, !.yes = TRUE], script),
       typed([show EXCEPT !.allServers = TRUE, !.clear = [clear EXCEPT !.hidden = TRUE]], other),
       jump("here", TRUE), jump("here", FALSE), jump("there", TRUE)}
=============================================================================
