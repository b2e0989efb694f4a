--------------------------- MODULE MCStandardSync ---------------------------
(* Two branches and two tags, four configurations and two commands. *)
EXTENDS StandardSync, TLC

CONSTANTS main, dev, v1, v2

MCBranches == {main, dev}
MCTags == {v1, v2}
All == {main, dev, v1, v2}

Nothing == [f \in Fields |-> Unset]
Entry == [Nothing EXCEPT !["url"] = "https"]
Asking == [Nothing EXCEPT !["prune"] = TRUE, !["branches"] = All]

MCFiles ==
    {[entry |-> [Entry EXCEPT !["prune_stale"] = TRUE, !["tags"] = {v1}, !["checkout"] = dev],
      defaults |-> Asking],
     [entry |-> [Entry EXCEPT !["branches"] = {dev, v1}, !["tags"] = {v2}, !["checkout"] = v1],
      defaults |-> Asking],
     [entry |-> [Entry EXCEPT !["prune"] = FALSE, !["branches"] = {main}, !["tags"] = All, !["checkout"] = v1],
      defaults |-> Asking],
     [entry |-> [Entry EXCEPT !["url"] = "ssh", !["ssh_key_path"] = "key", !["branches"] = {main}],
      defaults |-> Nothing]}

MCCommands == {{"prune", "dry"}, {"prune", "prune_stale"}}
=============================================================================
