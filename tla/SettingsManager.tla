-------------------------- MODULE SettingsManager --------------------------
(***************************************************************************)
(* The settings store of src/src/system/settings_manager.c: the registered *)
(* definitions with their defaults, and the entries that setters create    *)
(* over them.  create_setting_value, validate_setting_value and            *)
(* schedule_settings_save have no body in the repository: whether they     *)
(* succeed is open here, and a new entry's content is Blank.  Loading and  *)
(* saving do nothing yet, so no entry comes from a file.                   *)
(***************************************************************************)
EXTENDS Integers, FiniteSets

CONSTANTS
    Names,           \* the settings that are read and set, known or not
    Ints, Strings,   \* what a setter is called with
    Blank,           \* what create_setting_value leaves in an entry
    MAX_SETTINGS_PER_CATEGORY

Types == {"boolean", "integer", "string"}

Values(type) == CASE type = "boolean" -> BOOLEAN
                  [] type = "integer" -> Ints
                  [] type = "string"  -> Strings

(* init_settings_categories: all of them but the mouse's. *)
Categories ==
    {"appearance", "display", "audio", "network", "security", "privacy", "performance",
     "accessibility", "keyboard", "power", "startup", "updates", "users", "system",
     "developer"}

Definition(name, type, category, default) ==
    [name |-> name, type |-> type, category |-> category, default |-> default]

Booleans(category, names, default) ==
    {Definition(n, "boolean", category, default) : n \in names}

(* register_default_settings; a string's default is the enum's first choice. *)
Registered ==
    Booleans("appearance", {"appearance.theme_dark"}, FALSE)
    \cup Booleans("appearance", {"appearance.animations"}, TRUE)
    \cup Booleans("display", {"display.auto_brightness"}, FALSE)
    \cup Booleans("audio", {"audio.system_sounds"}, TRUE)
    \cup Booleans("network", {"network.wifi_enabled", "network.ethernet_enabled",
                              "network.firewall_enabled"}, TRUE)
    \cup Booleans("security", {"security.auto_lock", "security.require_password"}, TRUE)
    \cup Booleans("performance", {"performance.background_apps"}, TRUE)
    \cup Booleans("accessibility", {"accessibility.high_contrast",
                                    "accessibility.screen_reader"}, FALSE)
    \cup Booleans("power", {"power.hibernate_enabled"}, TRUE)
    \cup Booleans("updates", {"updates.auto_check"}, TRUE)
    \cup Booleans("developer", {"developer.debug_mode", "developer.show_fps"}, FALSE)
    \cup {Definition("appearance.icon_size", "integer", "appearance", 48),
          Definition("display.brightness", "integer", "display", 80),
          Definition("audio.master_volume", "integer", "audio", 75),
          Definition("security.lock_timeout", "integer", "security", 15),
          Definition("performance.max_processes", "integer", "performance", 256),
          Definition("accessibility.text_size", "integer", "accessibility", 100),
          Definition("input.key_repeat_delay", "integer", "keyboard", 500),
          Definition("input.key_repeat_rate", "integer", "keyboard", 25),
          Definition("input.mouse_sensitivity", "integer", "mouse", 50),
          Definition("power.sleep_timeout", "integer", "power", 30),
          Definition("appearance.wallpaper", "enum", "appearance", "Ocean Blue"),
          Definition("display.resolution", "enum", "display", "1920x1080"),
          Definition("audio.output_device", "enum", "audio", "Built-in Speakers"),
          Definition("performance.power_mode", "enum", "performance", "Balanced"),
          Definition("updates.install_mode", "enum", "updates", "Download Only")}

(* add_setting_to_category drops a definition whose category is not there.  *)
Definitions == {d \in Registered : d.category \in Categories}

(* Nor does it add one to a full category: none of them is ever full. *)
SettingsAssumption ==
    \A c \in Categories :
        Cardinality({d \in Registered : d.category = c}) <= MAX_SETTINGS_PER_CATEGORY

VARIABLES
    entries,     \* the value of each name that somebody tried to set
    result,      \* what the last call of a setter returned
    accepted     \* history: the last value each setter accepted, by name

smVars == <<entries, result, accepted>>

Entry == [type : Types, value : BOOLEAN \cup Ints \cup Strings \cup {Blank}]

TypeOK ==
    /\ DOMAIN entries \subseteq Names
    /\ \A n \in DOMAIN entries :
        /\ entries[n].type \in Types
        /\ entries[n].value \in Values(entries[n].type) \cup {Blank}
    /\ result \in BOOLEAN
    /\ DOMAIN accepted \subseteq DOMAIN entries

Init ==
    /\ entries = [n \in {} |-> Blank]
    /\ result = TRUE
    /\ accepted = [n \in {} |-> Blank]
-----------------------------------------------------------------------------
Of(name) == {d \in Definitions : d.name = name}

Nothing(type) == CASE type = "boolean" -> FALSE
                   [] type = "integer" -> 0
                   [] type = "string"  -> ""

(* The getters: the entry of that type, else the definition's default.      *)
(* settings_get_string reads an enum's too; no setter makes an enum entry.  *)
Get(name, type) ==
    LET kinds == IF type = "string" THEN {"string", "enum"} ELSE {type}
        defs  == {d \in Of(name) : d.type \in kinds}
    IN  IF name \in DOMAIN entries /\ entries[name].type = type THEN entries[name].value
        ELSE IF defs # {} THEN (CHOOSE d \in defs : TRUE).default
        ELSE Nothing(type)

Put(f, name, x) == [n \in DOMAIN f \cup {name} |-> IF n = name THEN x ELSE f[n]]

(* The entry a call of set_setting_value works on: made before anything is  *)
(* known of the value, with the type of the call.                           *)
Found(name, type) ==
    IF name \in DOMAIN entries THEN entries[name] ELSE [type |-> type, value |-> Blank]

(* Seeded fault: the value is stored before it is validated. *)
StoredFirst(name, type, v) == Put(entries, name, [type |-> type, value |-> v])

(* What a refused value leaves: the entry, created if it was not there. *)
LeftByRefusal(name, type, v) == Put(entries, name, Found(name, type))

Returns(value) == result' = value /\ (value = FALSE => UNCHANGED accepted)

Set(name, type, v) ==
    \/ name \notin DOMAIN entries            \* create_setting_value found no room
       /\ Returns(FALSE) /\ UNCHANGED entries
    \/ Found(name, type).type # type
       /\ Returns(FALSE) /\ UNCHANGED entries
    \/ /\ Found(name, type).type = type
       /\ Of(name) # {}                      \* validate_setting_value said no
       /\ Returns(FALSE)
       /\ entries' = LeftByRefusal(name, type, v)
    \/ /\ Found(name, type).type = type
       /\ Returns(TRUE)
       /\ entries' = Put(entries, name, [type |-> type, value |-> v])
       /\ accepted' = Put(accepted, name, v)

Next == \E n \in Names, t \in Types : \E v \in Values(t) : Set(n, t, v)

Spec == Init /\ [][Next]_smVars
-----------------------------------------------------------------------------
(* The last value that a setter took for a name is what the getter of its   *)
(* type reads, whatever calls of any type were refused since.  Before one   *)
(* is taken there is no such promise: a first call that is refused leaves   *)
(* an entry over the default.                                               *)
ReadsLastAccepted ==
    \A n \in DOMAIN accepted : Get(n, entries[n].type) = accepted[n]
=============================================================================
