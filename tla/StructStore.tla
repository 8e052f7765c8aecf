----------------------------- MODULE StructStore -----------------------------
(***************************************************************************)
(* struct-meta-sample: the command loop of struct_meta_sample.c over one   *)
(* instance in memory and the files of json/file.c.  A save is taken apart *)
(* where it can fail or the process can be killed: encode, open (which     *)
(* empties the file), write, close.                                        *)
(***************************************************************************)
EXTENDS JsonCodec

CONSTANTS Root,           \* the descriptor of person
          Paths,          \* file names
          Disks,          \* what the files may hold at the start
          Heaps,          \* what malloc may give, a number for each kind of field
          PatchValues,    \* the numbers a user may enter
          Faults,         \* which of "write", "close", "read" and "kill" may happen
          MaxCommands     \* bound on the commands of a behaviour

\* A file is "absent", "cut" (empty or broken off) or "whole" with its JSON value.
Absent == [state |-> "absent", json |-> Null]
Cut == [state |-> "cut", json |-> Null]
Whole(j) == [state |-> "whole", json |-> j]

VARIABLES mem,        \* the bytes of malloc(desc->size)
          has_data,
          disk,
          pc,         \* at the prompt, patching, inside a save, exited or killed
          saving,     \* the path and the text of the save under way
          commands,
          kept,       \* history: <<mem>> of the last save that went through, per path
          sparse,     \* history: a load has made data ready with cells that nothing was stored in
          leaked      \* history: a dump or save has put out an unset cell without that

vars == <<mem, has_data, disk, pc, saving, commands, kept, leaked, sparse>>

Scalars == Kinds \ {"struct"}
Mallocs == {Filled(Root, [k \in Scalars |-> Garbage(h[k])]) : h \in Heaps}
Leaves == Routes(Root)
SavedLeaves == {n \in DOMAIN Leaves : Saved(Root, Leaves[n])}

Init ==
  /\ mem \in Mallocs /\ has_data = FALSE
  /\ disk \in Disks
  /\ pc = "prompt" /\ saving = [path |-> CHOOSE p \in Paths : TRUE, text |-> Null]
  /\ commands = 0 /\ leaked = FALSE /\ sparse = FALSE
  /\ kept = [p \in Paths |-> <<>>]

\* com_util_prompt_readline and match_command give the next command.
Command == pc = "prompt" /\ commands < MaxCommands /\ commands' = commands + 1

\* load, patch, save and cat refuse an empty argument, exit, init and dump any; that,
\* "help" and an unknown word only print the commands.
print_commands ==
  /\ Command
  /\ UNCHANGED <<mem, has_data, disk, pc, saving, kept, leaked, sparse>>

cmd_init ==
  /\ Command
  /\ mem' = Filled(Root, [k \in Scalars |-> Cell(0)]) /\ has_data' = TRUE
  /\ UNCHANGED <<disk, pc, saving, kept, leaked, sparse>>

\* Nothing of the instance is touched before the text has been read and parsed.
struct_meta_json_file_load(p) ==
  IF disk[p].state # "whole" THEN Error("INVALID_ARGUMENT", mem)
  ELSE struct_from_json(Root, disk[p].json, mem)

Unset(m) == {n \in DOMAIN Leaves : ~print_struct(Root, m)[n].known}

\* After a load the data is ready, and cells of it are not stored: the file left them out,
\* or has them from a save after such a load.
LeavesOut(r) == (has_data \/ r.ret = "OK") /\ Unset(r.val) # {}

\* Mutant: the data counts as ready also when the load failed.
cmd_load_ready(p) ==
  /\ Command
  /\ \/ /\ disk[p].state = "absent" \/ "read" \in Faults
        /\ UNCHANGED <<mem, has_data, sparse>>
     \/ /\ disk[p].state # "absent"
        /\ LET r == struct_meta_json_file_load(p)
           IN  /\ mem' = r.val /\ has_data' = TRUE
               /\ sparse' = (sparse \/ LeavesOut(r))
  /\ UNCHANGED <<disk, pc, saving, kept, leaked>>

cmd_load(p) ==
  /\ Command
  /\ \/ /\ disk[p].state = "absent" \/ "read" \in Faults
        /\ UNCHANGED <<mem, has_data, sparse>>
     \/ /\ disk[p].state # "absent"
        /\ LET r == struct_meta_json_file_load(p)
           IN  /\ mem' = r.val
               /\ has_data' = (has_data \/ r.ret = "OK")
               /\ sparse' = (sparse \/ LeavesOut(r))
  /\ UNCHANGED <<disk, pc, saving, kept, leaked>>

ensure_ready_fails ==
  /\ Command /\ ~has_data
  /\ UNCHANGED <<mem, has_data, disk, pc, saving, kept, leaked, sparse>>

\* struct_meta_json_file_save up to the open: encode and cJSON_Print.
cmd_save(p) ==
  /\ Command /\ has_data
  /\ LET r == struct_to_json(Root, mem)
     IN  IF r.ret = "OK"
         THEN /\ pc' = "open" /\ saving' = [path |-> p, text |-> Printed(r.val)]
              /\ leaked' = (leaked \/ (~sparse /\ Unset(mem) \cap SavedLeaves # {}))
         ELSE UNCHANGED <<pc, saving, leaked, sparse>>
  /\ UNCHANGED <<mem, has_data, disk, kept, sparse>>

\* Mutant: the text goes to a file that is not emptied.
SaveOpenAppends ==
  /\ pc = "open"
  /\ pc' = "write" /\ UNCHANGED <<disk, kept>>
  /\ UNCHANGED <<mem, has_data, saving, commands, leaked, sparse>>

\* com_util_fopen(path, "wb"): what the file held is gone.
SaveOpen ==
  /\ pc = "open"
  /\ \/ /\ pc' = "write"
        /\ disk' = [disk EXCEPT ![saving.path] = Cut]
        /\ kept' = [kept EXCEPT ![saving.path] = <<>>]
     \/ /\ pc' = "prompt"
        /\ UNCHANGED <<disk, kept>>
  /\ UNCHANGED <<mem, has_data, saving, commands, leaked, sparse>>

\* The two fwrite calls: all of it is in the stream, or the device refused a part;
\* when that part is the newline alone the JSON is complete.
SaveWrite ==
  /\ pc = "write"
  /\ \/ pc' = "close" /\ UNCHANGED disk
     \/ /\ "write" \in Faults /\ pc' = "prompt"
        /\ \E file \in {Cut, Whole(saving.text)} : disk' = [disk EXCEPT ![saving.path] = file]
  /\ UNCHANGED <<mem, has_data, saving, commands, kept, leaked, sparse>>

\* com_util_fclose flushes the stream; its result is not looked at, the save has
\* succeeded for its caller in both cases.
SaveClose ==
  /\ pc = "close"
  /\ \/ /\ disk' = [disk EXCEPT ![saving.path] = Whole(saving.text)]
        /\ kept' = [kept EXCEPT ![saving.path] = <<mem>>]
     \/ "close" \in Faults /\ UNCHANGED <<disk, kept>>
  /\ pc' = "prompt"
  /\ UNCHANGED <<mem, has_data, saving, commands, leaked, sparse>>

\* patch: leaf after leaf is edited until the user or the input ends it (module
\* PatchMenu has the menus).
cmd_patch ==
  /\ Command /\ has_data /\ pc' = "patch"
  /\ UNCHANGED <<mem, has_data, disk, saving, kept, leaked, sparse>>

RECURSIVE WithLeaf(_, _, _)
WithLeaf(m, r, c) ==
  [m EXCEPT ![r[1].f][r[1].e] = IF Len(r) = 1 THEN c ELSE WithLeaf(@, Tail(r), c)]

PatchLeaf ==
  /\ pc = "patch" /\ commands < MaxCommands /\ commands' = commands + 1
  /\ \E n \in DOMAIN Leaves, v \in PatchValues :
        /\ Holds(LeafKind(Root, Leaves[n]), v)
        /\ mem' = WithLeaf(mem, Leaves[n], Cell(v))
  /\ UNCHANGED <<has_data, disk, pc, saving, kept, leaked, sparse>>

PatchEnds ==
  /\ pc = "patch" /\ pc' = "prompt"
  /\ UNCHANGED <<mem, has_data, disk, saving, commands, kept, leaked, sparse>>

cmd_dump ==
  /\ Command /\ has_data
  /\ leaked' = (leaked \/ (~sparse /\ Unset(mem) # {}))
  /\ UNCHANGED <<mem, has_data, disk, pc, saving, kept, sparse>>

\* cat copies the bytes of the file to stdout as they are.
cmd_cat(p) ==
  /\ Command
  /\ UNCHANGED <<mem, has_data, disk, pc, saving, kept, leaked, sparse>>

\* "exit", the end of the input, Ctrl+C or a failing readline.
Exit ==
  /\ pc = "prompt" /\ pc' = "exited"
  /\ UNCHANGED <<mem, has_data, disk, saving, commands, kept, leaked, sparse>>

Kill ==
  /\ "kill" \in Faults /\ pc \notin {"exited", "killed"} /\ pc' = "killed"
  /\ UNCHANGED <<mem, has_data, disk, saving, commands, kept, leaked, sparse>>

\* main of a new process on the same files.
Restart ==
  /\ pc \in {"exited", "killed"} /\ pc' = "prompt"
  /\ mem' \in Mallocs /\ has_data' = FALSE /\ sparse' = FALSE
  /\ UNCHANGED <<disk, saving, commands, kept, leaked>>

Next ==
  \/ print_commands \/ cmd_init \/ ensure_ready_fails \/ cmd_patch \/ cmd_dump
  \/ \E p \in Paths : cmd_load(p) \/ cmd_save(p) \/ cmd_cat(p)
  \/ SaveOpen \/ SaveWrite \/ SaveClose \/ PatchLeaf \/ PatchEnds
  \/ Exit \/ Kill \/ Restart

Spec == Init /\ [][Next]_vars

-----------------------------------------------------------------------------
\* The unit of update that docs/architecture.md describes: a load stores the leaves in
\* front of the first one that cannot be stored and leaves the others alone, whatever
\* the file holds and the memory held, and succeeds when there is no such leaf.  Each
\* leaf then has a number its type holds: no text loses its terminator.
LoadsLeafByLeaf ==
  /\ \A p \in Paths :
       disk[p].state = "whole" => DecodesLeafByLeaf(Root, Leaves, disk[p].json, mem)
  /\ LET cells == print_struct(Root, mem)
     IN  /\ DOMAIN cells = DOMAIN Leaves
         /\ \A n \in DOMAIN cells :
              cells[n].known => Holds(LeafKind(Root, Leaves[n]), cells[n].v)

\* A leaf whose value has a text in JSON: not NaN and the infinities, which are printed
\* as null, nor the text without terminator that malloc may have left.
Writable(m, n) ==
  LET v == print_struct(Root, m)[n].v IN Holds(LeafKind(Root, Leaves[n]), v) /\ Finite(v)

\* What was saved comes back, until the file is saved to again: over any memory, after
\* any number of kills and restarts, and whatever else was done.  Not so when a saved leaf
\* was not Writable, nor when the last flush failed, which file.c does not report.
SavedComesBack ==
  \A p \in Paths : kept[p] # <<>> =>
    /\ disk[p].state = "whole"
    /\ (\A n \in SavedLeaves : Writable(kept[p][1], n)) =>
         \A before \in {mem} \cup Mallocs :
           ComesBack(Root, Leaves, disk[p].json, kept[p][1], before)

\* What dump and save put out has been stored by init, load or patch, except that a load
\* which succeeds without filling the memory malloc gave also makes the data ready: its
\* other cells are put out as they are, and may come back from the file they went to, with
\* a load that fails behind them too.
ShownIsStored == ~leaked
=============================================================================
