---------------------------- MODULE StoreSettings ----------------------------
(***************************************************************************)
(* The settings of the shop (store_settings_service.py), edited by several *)
(* administrators at once.  A save carries a version and is refused if it  *)
(* is not the current one.  The web panel saves a whole page of settings   *)
(* under the version it was loaded with; refused, its editor may ask for   *)
(* the latest version and save the same page under that.  The bot's        *)
(* screens (bot/handlers/admin/settings.py) split this in two: a list      *)
(* shows the values and keeps no version; the button of a setting reads    *)
(* the settings again, keeps the version and shows none of their values.   *)
(* Settings are read in two statements, the version first, each of which   *)
(* sees what is committed by then.  Fields are those on both screens.      *)
(*                                                                         *)
(* A definition marked Mutant is a plausible bug in the definition that    *)
(* follows it.  No action uses it: it shows that the properties can fail.  *)
(***************************************************************************)
EXTENDS Naturals

CONSTANTS
    Panels,         \* pages of the web panel
    Chats,          \* chats of administrators with the bot
    Fields, Values,
    MaxVersion,     \* bound: saves
    NoScreen, Unread

VARIABLES
    setting,        \* settings: field -> value
    version,        \* store_state.settings_version
    page,           \* what each page of the panel has loaded
    refreshed,      \* pages whose editor was told of a conflict, and went on
    listed,         \* what the list of settings in each chat has loaded
    tapped,         \* what the handler of a setting's button has read
    prompt,         \* the FSM data of each chat: what it asks a value for
    answer          \* what the handler of a value has read

settingsVars == <<setting, version, page, refreshed, listed, tapped, prompt, answer>>
pageVars == <<page, refreshed>>
dialogueVars == <<tapped, prompt, answer>>

\* What get_store_settings has read; what stood with the version is history.
Snapshots == [version: Nat, stood: [Fields -> Values], values: [Fields -> Values] \cup {Unread}]
\* The key and the version are stored; the rest is history.
Prompts == [key: Fields, version: Nat, stood: [Fields -> Values], shown: Snapshots]

SettingsInit ==
    /\ \E v \in Values : setting = [f \in Fields |-> v]
    /\ version = 0
    /\ page = [p \in Panels |-> NoScreen] /\ refreshed = {}
    /\ listed = [c \in Chats |-> NoScreen] /\ tapped = [c \in Chats |-> NoScreen]
    /\ prompt = [c \in Chats |-> NoScreen] /\ answer = [c \in Chats |-> NoScreen]

\* get_store_settings, statement by statement.
FirstRead == [version |-> version, stood |-> setting, values |-> Unread]
Loading(s) == s # NoScreen /\ s.values = Unread
Loaded(s) == s # NoScreen /\ s.values # Unread

-----------------------------------------------------------------------------
(* Saving. *)

\* Mutant: the versions are not compared.
Uncompared(v) == version < MaxVersion
Current(v) == v = version /\ version < MaxVersion

\* patch_store_settings: the row of the version is locked from the
\* comparison to the commit.
Patch(v, values) == Current(v) /\ setting' = values /\ version' = version + 1
Patched == [version |-> version', stood |-> setting', values |-> setting']

-----------------------------------------------------------------------------
(* The web panel. *)

OpenPage(p) ==
    /\ page' = [page EXCEPT ![p] = FirstRead]
    /\ refreshed' = refreshed \ {p}
    /\ UNCHANGED <<setting, version, listed, dialogueVars>>

FillPage(p) ==
    /\ Loading(page[p])
    /\ page' = [page EXCEPT ![p].values = setting]
    /\ UNCHANGED <<setting, version, refreshed, listed, dialogueVars>>

\* The page sends every value it has, those its editor did not touch too
\* (settingsBody), and shows what was saved if the answer arrives.
SavePage(p, entered) ==
    /\ Loaded(page[p])
    /\ Patch(page[p].version,
             [f \in Fields |-> IF f \in DOMAIN entered THEN entered[f] ELSE page[p].values[f]])
    /\ \/ page' = [page EXCEPT ![p] = Patched]
       \/ page' = [page EXCEPT ![p] = NoScreen]
    /\ refreshed' = refreshed \ {p}
    /\ UNCHANGED <<listed, dialogueVars>>

\* After "Store settings changed; reload and retry" the page can take over
\* the latest version; it keeps the values it has (refreshLatest).
RefreshPage(p) ==
    /\ Loaded(page[p]) /\ page[p].version # version
    /\ page' = [page EXCEPT ![p].version = version, ![p].stood = setting]
    /\ refreshed' = refreshed \cup {p}
    /\ UNCHANGED <<setting, version, listed, dialogueVars>>

-----------------------------------------------------------------------------
(* The bot. *)

\* render_settings.
OpenList(c) ==
    /\ listed' = [listed EXCEPT ![c] = FirstRead]
    /\ UNCHANGED <<setting, version, pageVars, dialogueVars>>

FillList(c) ==
    /\ Loading(listed[c])
    /\ listed' = [listed EXCEPT ![c].values = setting]
    /\ UNCHANGED <<setting, version, pageVars, dialogueVars>>

\* on_setting_edit_start reads the settings, of which it uses the version.
ChooseSetting(c, f) ==
    /\ tapped[c] = NoScreen /\ Loaded(listed[c])
    /\ tapped' = [tapped EXCEPT ![c] =
                    [key |-> f, version |-> version, stood |-> setting, shown |-> listed[c]]]
    /\ UNCHANGED <<setting, version, pageVars, listed, prompt, answer>>

\* It stores the key and the version, and the question takes the list's place.
AskValue(c) ==
    /\ tapped[c] # NoScreen
    /\ prompt' = [prompt EXCEPT ![c] = tapped[c]]
    /\ tapped' = [tapped EXCEPT ![c] = NoScreen]
    /\ listed' = [listed EXCEPT ![c] = NoScreen]
    /\ UNCHANGED <<setting, version, pageVars, answer>>

\* on_setting_value_entered reads the FSM data.
EnterValue(c) ==
    /\ answer[c] = NoScreen /\ prompt[c] # NoScreen
    /\ answer' = [answer EXCEPT ![c] = prompt[c]]
    /\ UNCHANGED <<setting, version, pageVars, listed, tapped, prompt>>

\* It clears them, whether the value is saved or not, before the transaction
\* commits; so does a button that cancels.
ClearPrompt(c) ==
    /\ prompt[c] # NoScreen
    /\ prompt' = [prompt EXCEPT ![c] = NoScreen]
    /\ UNCHANGED <<setting, version, pageVars, listed, tapped, answer>>

\* It saves one setting, and sends a new list.
SaveAnswer(c, v) ==
    /\ answer[c] # NoScreen
    /\ Patch(answer[c].version, [setting EXCEPT ![answer[c].key] = v])
    /\ answer' = [answer EXCEPT ![c] = NoScreen]
    /\ listed' = [listed EXCEPT ![c] = Patched]
    /\ UNCHANGED <<pageVars, tapped, prompt>>

\* "Store settings changed; reload and retry", a value that is none, a crash.
DropAnswer(c) ==
    /\ answer[c] # NoScreen
    /\ answer' = [answer EXCEPT ![c] = NoScreen]
    /\ UNCHANGED <<setting, version, pageVars, listed, tapped, prompt>>

-----------------------------------------------------------------------------
SettingsNext ==
    \/ \E p \in Panels :
        \/ OpenPage(p) \/ FillPage(p) \/ RefreshPage(p)
        \/ \E fields \in SUBSET Fields : \E entered \in [fields -> Values] : SavePage(p, entered)
    \/ \E c \in Chats :
        \/ OpenList(c) \/ FillList(c)
        \/ \E f \in Fields : ChooseSetting(c, f)
        \/ AskValue(c) \/ EnterValue(c) \/ ClearPrompt(c) \/ DropAnswer(c)
        \/ \E v \in Values : SaveAnswer(c, v)

SettingsSpec == SettingsInit /\ [][SettingsNext]_settingsVars

-----------------------------------------------------------------------------
(* Properties. *)

\* A save replaces the values that stood when its version was read.  A page
\* of the web panel shows them: no save of another editor, not even one
\* between the two reads of the page, is undone without being seen, unless
\* the editor was told of it and went on with the page as it was.  The bot
\* shows them only if nobody saved between the list and the tap.
SavedAsSeen ==
    [][version' > version =>
        /\ \A p \in Panels : page'[p] # page[p] =>
            /\ page[p].stood = setting
            /\ p \notin refreshed => page[p].values = setting
        /\ \A c \in Chats : answer'[c] # answer[c] =>
            /\ answer[c].stood = setting
            /\ answer[c].shown.version = answer[c].version =>
                    answer[c].shown.values = setting]_settingsVars
=============================================================================
