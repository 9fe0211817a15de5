------------------------------- MODULE Library ------------------------------
(***************************************************************************)
(* The player's instances and settings: instances.json (instances/         *)
(* instance.c with ipc/instance_handlers.c), settings.json (ipc/           *)
(* settings_handlers.c) and config.json, which holds the version played    *)
(* last (config/config.c).                                                 *)
(*                                                                         *)
(* The page's requests run one after the other on the thread of the        *)
(* window.  A launch, on a thread of its own, reads its instance and the   *)
(* settings, and rewrites the index to note when the instance was played   *)
(* last.  Every rewrite loads the file, opens it with "wb", which empties  *)
(* it, and writes it at the close; no lock is taken.  A file that does not *)
(* parse is loaded as an empty one, except config.json, whose text is      *)
(* searched and spliced without a parser.                                  *)
(***************************************************************************)
EXTENDS Naturals, Sequences, SequencesExt

CONSTANTS
    Names,      \* names they are given
    Rams,       \* amounts of memory that are asked for; 0: none of its own
    Keys,       \* settings other than the memory
    Versions,   \* versions of the game
    MinRam, MaxRam, DefaultRam,
    Starts,     \* what settings.json and config.json hold at first
    Ui, Threads,
    Torn,       \* a file that is there and does not parse
    MaxOps,     \* bound: requests that change something
    MaxFaults   \* bound: crashes, files that cannot be written

ASSUME LibraryAssumption ==
    /\ Rams \subseteq Nat /\ 0 \in Rams /\ MinRam \in Nat /\ MaxRam \in Nat
    /\ MinRam <= MaxRam /\ DefaultRam \in Nat
    /\ MaxOps \in Nat /\ MaxFaults \in Nat /\ Ui \notin Threads /\ "ram" \notin Keys

Actors == {Ui} \cup Threads

(* Made of the clock and a random number: never given twice.               *)
Ids == 1..MaxOps

NoOp == [kind |-> "none"]
NoInst == [id |-> 0, ram |-> 0]
Empty == [x \in {} |-> x]

VARIABLES
    index,      \* instances.json: Torn, or instances by id
    settings,   \* settings.json: Torn, or values by name
    config,     \* config.json: its text, as a sequence of tokens
    at,         \* where each thread is
    op,         \* the change it makes
    mem,        \* the document it has loaded and changed
    inst,       \* per launch, its instance as it read it
    ram,        \* per launch, the memory it starts the game with
    meant,      \* history: the instances by what the page was answered
    wanted,     \* history: the settings likewise
    stale,      \* history: threads whose document is not the file's any more
    disturbed,  \* history: the index was saved from such a document, or torn
    broken,     \* history: the settings were torn
    chosen,     \* history: the values of config.json by what the page was answered
    unsaved,    \* history: what went wrong with it, "open" and "torn"
    ops, faults

libraryVars == <<index, settings, config, at, op, mem, inst, ram, meant, wanted, stale,
          disturbed, broken, chosen, unsaved, ops, faults>>
files == <<index, settings, config>>
launches == <<inst, ram>>
saved == <<meant, wanted, chosen>>
history == <<saved, stale, disturbed, broken, unsaved>>

(* config.json.  A token is a brace, a comma, a key with its colon, a      *)
(* value, or a value that is cut short.                                    *)
Token(t, x) == [t |-> t, x |-> x]
Opens == Token("{", "")
Closes == Token("}", "")
Comma == Token(",", "")
Key(k) == Token("key", k)
Value(v) == Token("value", v)
Half == Token("half", "")
NoFile == <<Token("no file", "")>>
Nothing == <<Opens, Closes>>
Pair(k, v) == <<Key(k), Value(v)>>
Foreign == <<Opens>> \o Pair("theme", "dark") \o <<Closes>>

Instances == [name : Names, ram : Rams, played : BOOLEAN]
Partial(D, R) == UNION {[S -> R] : S \in SUBSET D}
Lists == Partial(Ids, Instances)
Settings == Partial(Keys \cup {"ram"}, Rams \cup {MinRam, MaxRam})

ASSUME DocumentsAssumption ==
    /\ Torn \notin Lists /\ Torn \notin Settings
    /\ \A start \in Starts : /\ start.settings \in Settings
                            /\ start.config \in {NoFile, Nothing, Foreign}

LibraryTypeOK ==
    /\ index \in Lists \cup {Torn} /\ settings \in Settings \cup {Torn}
    /\ at \in [Actors -> {"idle", "load", "open", "write", "args", "touch"}]
    /\ inst \in [Threads -> [id : Ids \cup {0}, ram : Rams]]
    /\ ram \in [Threads -> Nat] /\ stale \subseteq Actors
    /\ disturbed \in BOOLEAN /\ broken \in BOOLEAN /\ unsaved \subseteq {"open", "torn"}
    /\ chosen \in [lastVersion : Versions \cup {"none"}, theme : {"dark", "none"}]
    /\ ops \in 0..MaxOps /\ faults \in 0..MaxFaults

LibraryInit ==
    /\ index = Empty
    /\ \E start \in Starts : settings = start.settings /\ config = start.config
    /\ at = [a \in Actors |-> "idle"] /\ op = [a \in Actors |-> NoOp]
    /\ mem = [a \in Actors |-> Empty]
    /\ inst = [l \in Threads |-> NoInst] /\ ram = [l \in Threads |-> 0]
    /\ meant = Empty /\ wanted = settings
    /\ stale = {} /\ disturbed = FALSE /\ broken = FALSE
    /\ unsaved = {}
    /\ chosen = [lastVersion |-> "none", theme |-> IF config = Foreign THEN "dark" ELSE "none"]
    /\ ops = 0 /\ faults = 0

-----------------------------------------------------------------------------
(* clamp_ram_mb: what is left to other programs never goes to the game.    *)
clamp_ram_mb(r) == IF r < MinRam THEN MinRam ELSE IF r > MaxRam THEN MaxRam ELSE r

(* load_index, and the read of on_save_settings: a file that is damaged is *)
(* as good as an empty one.                                                *)
Loaded(f) == IF f = Torn THEN Empty ELSE f

Put(f, k, v) == [x \in DOMAIN f \cup {k} |-> IF x = k THEN v ELSE f[x]]

(* Where the value of a key is in the text: after the first key of that    *)
(* name, if anything is; else 0.                                           *)
find_json_value(json, key) ==
    LET i == SelectInSeq(json, LAMBDA t : t = Key(key))
    IN  IF i = 0 \/ i = Len(json) THEN 0 ELSE i + 1

config_get(json, key) ==
    LET i == find_json_value(json, key) IN IF i = 0 THEN Value("none") ELSE json[i]

Refused == [ok |-> FALSE]
Text(t) == [ok |-> TRUE, text |-> t]

(* The pair goes before the last brace, with a comma unless there is       *)
(* nothing else; without a brace nothing is written.                       *)
config_add(json, key, value) ==
    LET close == SelectLastInSeq(json, LAMBDA t : t = Closes)
        before == SubSeq(json, 1, close - 1)
    IN  IF json = NoFile THEN Text(<<Opens>> \o Pair(key, value) \o <<Closes>>)
        ELSE IF find_json_value(json, key) # 0 \/ close = 0 THEN Refused
        ELSE Text(before \o (IF Len(before) <= 1 THEN << >> ELSE <<Comma>>)
                  \o Pair(key, value) \o <<Closes>>)

(* Seeded fault: the new pair is put at the end, the old one left.         *)
config_set_Appends(json, key, value) ==
    LET close == SelectLastInSeq(json, LAMBDA t : t = Closes)
    IN  IF find_json_value(json, key) = 0 \/ close = 0 THEN config_add(json, key, value)
        ELSE Text(SubSeq(json, 1, close - 1) \o <<Comma>> \o Pair(key, value) \o <<Closes>>)

config_set(json, key, value) ==
    LET i == find_json_value(json, key)
    IN  IF i = 0 THEN config_add(json, key, value)
        ELSE Text([json EXCEPT ![i] = Value(value)])

(* What each change makes of a document.                                   *)
instance_create(o, d) == Put(d, o.id, [name |-> o.name, ram |-> 0, played |-> FALSE])
instance_delete(o, d) == Restrict(d, DOMAIN d \ {o.id})
(* Seeded fault: the renamed entry is made anew, without its memory.       *)
instance_rename_Anew(o, d) ==
    Put(d, o.id, [name |-> o.name, ram |-> 0, played |-> FALSE])

instance_rename(o, d) == [d EXCEPT ![o.id].name = o.name]
instance_set_ram(o, d) == [d EXCEPT ![o.id].ram = o.ram]
instance_touch_last_played(o, d) == [d EXCEPT ![o.id].played = TRUE]

(* Seeded fault: what the page sends replaces what was there.              *)
Merge_Replaces(o, d) ==
    Put(Empty, o.key, IF o.key = "ram" THEN clamp_ram_mb(o.value) ELSE o.value)

(* on_save_settings merges what the page sends into what is there.         *)
Merge(o, d) ==
    Put(d, o.key, IF o.key = "ram" THEN clamp_ram_mb(o.value) ELSE o.value)

Apply(o, d) ==
    CASE o.kind = "create" -> instance_create(o, d)
      [] o.kind = "delete" -> instance_delete(o, d)
      [] o.kind = "rename" -> instance_rename(o, d)
      [] o.kind = "ram" -> instance_set_ram(o, d)
      [] o.kind = "touch" -> instance_touch_last_played(o, d)
      [] o.kind = "save" -> Merge(o, d)
      [] o.kind = "version" -> config_set(d, "lastVersion", o.version).text

(* All but a creation and the settings ask for an entry that is listed.    *)
Found(o, d) ==
    CASE o.kind \in {"create", "save"} -> TRUE
      [] o.kind = "version" -> config_set(d, "lastVersion", o.version).ok
      [] OTHER -> o.id \in DOMAIN d

Ends(a) == /\ at' = [at EXCEPT ![a] = "idle"] /\ op' = [op EXCEPT ![a] = NoOp]
           /\ mem' = [mem EXCEPT ![a] = Empty] /\ stale' = stale \ {a}

-----------------------------------------------------------------------------
(* The requests, by what they ask.                                         *)

Asks(o) ==
    /\ at[Ui] = "idle" /\ ops < MaxOps /\ ops' = ops + 1
    /\ at' = [at EXCEPT ![Ui] = "load"] /\ op' = [op EXCEPT ![Ui] = o]
    /\ UNCHANGED <<files, mem, launches, history, faults>>

on_create_instance ==
    \E n \in Names : Asks([kind |-> "create", id |-> ops + 1, name |-> n])

on_delete_instance == \E i \in Ids : Asks([kind |-> "delete", id |-> i])

on_rename_instance ==
    \E i \in Ids, n \in Names : Asks([kind |-> "rename", id |-> i, name |-> n])

(* The amount is taken as it is sent.                                      *)
on_set_instance_ram ==
    \E i \in Ids, r \in Rams : Asks([kind |-> "ram", id |-> i, ram |-> r])

on_save_settings ==
    \E k \in Keys \cup {"ram"}, v \in Rams : Asks([kind |-> "save", key |-> k, value |-> v])

on_set_version == \E v \in Versions : Asks([kind |-> "version", version |-> v])

-----------------------------------------------------------------------------
(* A rewrite, by the window's thread or by a launch.                       *)

File(o) == CASE o.kind = "save" -> "settings" [] o.kind = "version" -> "config"
             [] OTHER -> "index"
Target(a) == CASE File(op[a]) = "settings" -> Loaded(settings)
               [] File(op[a]) = "config" -> config
               [] OTHER -> Loaded(index)

(* What the answer "ok" promises: the list with this one change.           *)
Promise(o, m) ==
    CASE o.kind = "create" -> Put(m, o.id, [name |-> o.name, ram |-> 0])
      [] o.kind = "delete" -> Restrict(m, DOMAIN m \ {o.id})
      [] o.kind = "rename" -> Put(m, o.id, [name |-> o.name, ram |-> m[o.id].ram])
      [] o.kind = "ram" -> Put(m, o.id, [name |-> m[o.id].name, ram |-> o.ram])

Answered(a) ==
    LET o == op[a] IN
    /\ meant' = IF File(o) = "index" /\ o.kind # "touch"
                   /\ (o.kind = "create" \/ o.id \in DOMAIN meant)
                THEN Promise(o, meant) ELSE meant
    /\ wanted' = IF o.kind # "save" THEN wanted
                 ELSE Put(wanted, o.key, IF o.key # "ram" THEN o.value
                                         ELSE clamp_ram_mb(o.value))
    /\ chosen' = IF o.kind = "version" THEN [chosen EXCEPT !.lastVersion = o.version]
                 ELSE chosen

(* The document is loaded and changed.  Nothing is saved when the entry is *)
(* not there, and the request is refused; nor when config.json has no      *)
(* brace to put a pair before, but on_set_version answers ok all the same. *)
Load(a) ==
    /\ at[a] = "load"
    /\ IF Found(op[a], Target(a))
       THEN /\ at' = [at EXCEPT ![a] = "open"]
            /\ mem' = [mem EXCEPT ![a] = Apply(op[a], Target(a))]
            /\ stale' = IF index = Torn /\ File(op[a]) = "index"
                        THEN stale \cup {a} ELSE stale
            /\ UNCHANGED <<op, saved>>
       ELSE Ends(a) /\ IF op[a].kind = "version" THEN Answered(a) ELSE UNCHANGED saved
    /\ UNCHANGED <<files, launches, disturbed, broken, unsaved, ops, faults>>

Rewriting(a) == at[a] \in {"open", "write"}

(* fopen with "wb": the file is empty from here on.                        *)
Truncate(a) ==
    /\ at[a] = "open" /\ at' = [at EXCEPT ![a] = "write"]
    /\ settings' = IF File(op[a]) = "settings" THEN Torn ELSE settings
    /\ config' = IF File(op[a]) = "config" THEN << >> ELSE config
    /\ IF File(op[a]) = "index"
       THEN /\ index' = Torn
            /\ disturbed' = (disturbed \/ a \in stale)
            /\ stale' = stale \cup {b \in Actors \ {a} : Rewriting(b) /\ File(op[b]) = "index"}
       ELSE UNCHANGED <<index, stale, disturbed>>
    /\ UNCHANGED <<op, mem, launches, saved, broken, unsaved, ops, faults>>

(* The request is answered with an error, but for on_set_version; a launch *)
(* takes no notice.                                                        *)
CannotOpen(a) ==
    /\ at[a] = "open" /\ faults < MaxFaults /\ faults' = faults + 1
    /\ Ends(a)
    /\ IF op[a].kind = "version" THEN Answered(a) /\ unsaved' = unsaved \cup {"open"}
                                 ELSE UNCHANGED <<saved, unsaved>>
    /\ UNCHANGED <<files, launches, disturbed, broken, ops>>

(* fputs or fwrite and fclose, whose results are not looked at.            *)
Write(a) ==
    /\ at[a] = "write" /\ Ends(a) /\ Answered(a)
    /\ settings' = IF File(op[a]) = "settings" THEN mem[a] ELSE settings
    /\ config' = IF File(op[a]) = "config" THEN mem[a] ELSE config
    /\ index' = IF File(op[a]) = "index" THEN mem[a] ELSE index
    /\ UNCHANGED <<launches, disturbed, broken, unsaved, ops, faults>>

(* A text that stops short, in the middle of a token or between two.       *)
Cuts(t) == {SubSeq(t, 1, n) : n \in 0..(Len(t) - 1)}
           \cup {Append(SubSeq(t, 1, n - 1), Half) : n \in {i \in DOMAIN t : t[i].t = "value"}}

(* A disk that is full: what was there is gone, and the answer is ok.      *)
WriteShort(a) ==
    /\ at[a] = "write" /\ faults < MaxFaults /\ faults' = faults + 1
    /\ Ends(a) /\ Answered(a)
    /\ \/ /\ File(op[a]) = "settings" /\ settings' = Torn /\ broken' = TRUE
          /\ UNCHANGED <<index, disturbed, config, unsaved>>
       \/ /\ File(op[a]) = "config" /\ config' \in Cuts(mem[a]) /\ unsaved' = unsaved \cup {"torn"}
          /\ UNCHANGED <<index, disturbed, settings, broken>>
       \/ /\ File(op[a]) = "index" /\ index' = Torn /\ disturbed' = TRUE
          /\ UNCHANGED <<settings, broken, config, unsaved>>
    /\ UNCHANGED <<launches, ops>>

-----------------------------------------------------------------------------
(* A launch of instance i: launch_instance.                                *)

(* It is over at once when the instance is not listed.                     *)
instance_get(l, i) ==
    /\ at[l] = "idle" /\ i \in DOMAIN Loaded(index)
    /\ at' = [at EXCEPT ![l] = "args"]
    /\ inst' = [inst EXCEPT ![l] = [id |-> i, ram |-> index[i].ram]]
    /\ UNCHANGED <<files, op, mem, ram, history, ops, faults>>

(* get_configured_ram_mb: the settings as they can be read at this moment. *)
ConfiguredRam ==
    LET d == Loaded(settings)
    IN  clamp_ram_mb(IF "ram" \in DOMAIN d THEN IF d["ram"] > 0 THEN d["ram"]
                                            ELSE DefaultRam
                     ELSE DefaultRam)

LaunchRam(l) ==
    /\ at[l] = "args" /\ at' = [at EXCEPT ![l] = "touch"]
    /\ ram' = [ram EXCEPT ![l] = IF inst[l].ram > 0 THEN inst[l].ram ELSE ConfiguredRam]
    /\ UNCHANGED <<files, op, mem, inst, history, ops, faults>>

(* The last thing before the game starts: lastPlayed is written.           *)
Touch(l) ==
    /\ at[l] = "touch" /\ at' = [at EXCEPT ![l] = "load"]
    /\ op' = [op EXCEPT ![l] = [kind |-> "touch", id |-> inst[l].id]]
    /\ inst' = [inst EXCEPT ![l] = NoInst] /\ ram' = [ram EXCEPT ![l] = 0]
    /\ UNCHANGED <<files, mem, history, ops, faults>>

-----------------------------------------------------------------------------
(* The launcher ends or dies and is started again: init_config makes a     *)
(* config.json when there is none.                                         *)
init_config == IF config = NoFile THEN Nothing ELSE config

Restart ==
    /\ faults < MaxFaults /\ faults' = faults + 1
    /\ at' = [a \in Actors |-> "idle"] /\ op' = [a \in Actors |-> NoOp]
    /\ mem' = [a \in Actors |-> Empty] /\ stale' = {}
    /\ inst' = [l \in Threads |-> NoInst] /\ ram' = [l \in Threads |-> 0]
    /\ disturbed' = (disturbed \/ index = Torn)
    /\ broken' = (broken \/ settings = Torn)
    /\ unsaved' = unsaved \cup (IF config = << >> THEN {"torn"} ELSE {})
    /\ config' = init_config
    /\ UNCHANGED <<index, settings, saved, ops>>

LibraryNext ==
    \/ on_create_instance \/ on_delete_instance \/ on_rename_instance
    \/ on_set_instance_ram \/ on_save_settings \/ on_set_version
    \/ \E a \in Actors : Load(a) \/ Truncate(a) \/ CannotOpen(a) \/ Write(a) \/ WriteShort(a)
    \/ \E l \in Threads : \/ \E i \in Ids : instance_get(l, i)
                          \/ LaunchRam(l) \/ Touch(l)
    \/ Restart

LibrarySpec == LibraryInit /\ [][LibraryNext]_libraryVars

-----------------------------------------------------------------------------
(* Properties.                                                             *)

(* What the list says of the instances, leaving out when they were played. *)
Listed(d) == [i \in DOMAIN d |-> [name |-> d[i].name, ram |-> d[i].ram]]

(* When nobody rewrites it, the index holds the instances the page was     *)
(* told of, under the names and with the memory it was told: a created one *)
(* stays, a deleted one does not come back.  Until a crash or a full disk  *)
(* tears the file, or a launch's lastPlayed and a request of the page load *)
(* it before the other has saved: instance.c has no lock against that.     *)
IndexKept ==
    (\A a \in Actors : at[a] # "write") /\ ~disturbed
        => index # Torn /\ Listed(index) = meant

RamFits ==
    \A l \in Threads :
        at[l] = "touch" /\ inst[l].ram = 0 => ram[l] \in MinRam..MaxRam

(* Saving one setting keeps the others, and each has the value saved last, *)
(* until a crash or a full disk tears the file; from then on the settings  *)
(* are those saved since.  And whatever they hold, from another machine or *)
(* another version, and at whatever moment of a rewrite they are read, a   *)
(* launch takes no more memory than clamp_ram_mb leaves it, unless its     *)
(* instance has an amount of its own, which nothing limits.                *)
SettingsKept ==
    /\ at[Ui] # "write" =>
           /\ ~broken => settings = wanted
           /\ settings # Torn =>
                  \A k \in DOMAIN settings : k \in DOMAIN wanted /\ settings[k] = wanted[k]
    /\ RamFits

(* on_get_version gives the page the version it was last told is saved,    *)
(* and the other keys of config.json stay, until the file cannot be opened *)
(* or is torn.  From a torn one it is given that version, none, or half of *)
(* one, never an older one, though on_set_version goes on answering ok.    *)
ConfigKept ==
    at[Ui] # "write" =>
        /\ unsaved = {} =>
               \A k \in DOMAIN chosen : config_get(config, k) = Value(chosen[k])
        /\ "open" \notin unsaved =>
               config_get(config, "lastVersion") \in
                   {Value(chosen.lastVersion), Value("none"), Half}
-----------------------------------------------------------------------------
=============================================================================
