-------------------------------- MODULE SignIn --------------------------------
(***************************************************************************)
(* Who may speak to the hub (auth.cpp): the token, the admin password and  *)
(* the switch of sign-in, in RAM and in NVS, and the web sockets that the  *)
(* dispatcher trusts by a flag of their own.  Commands come from the web   *)
(* server's task and, through the cloud relay, from its task; each runs in *)
(* steps, between which the other's run, power fails or the hub restarts.  *)
(***************************************************************************)
EXTENDS Naturals

CONSTANTS
    Socket,     \* file descriptors of web sockets
    WebMay,     \* of token.rotate and settings.set, those that come from browsers
    RelayMay,   \* those the relay passes to the hub (remote_client's rules)
    MaxDraws    \* bound: tokens and salts drawn

ASSUME SignInAssumption ==
    /\ WebMay \subseteq {"rotate", "settings"} /\ RelayMay \subseteq {"rotate", "settings"}
    /\ MaxDraws \in Nat \ {0}

VARIABLES
    nvs,      \* namespace zhac_auth: enabled, token, pw_salt, pw_hash, show_tok
    ram,      \* s_enabled, s_token, s_pw_set, s_salt, s_hash, s_storage_error
    open,     \* ws_server has no token: a new socket starts signed in
    socket,   \* per socket, what ws_server keeps and the token it has shown
    job,      \* per task, how far its command is
    window,   \* zap_setup_secs_left() > 0
    drawn,    \* tokens and salts drawn so far
    console,  \* the token this boot printed on the serial console, 0 for none
    claimed,  \* has set-up answered, since this boot?
    known     \* the password NVS holds: 0 for none, Torn for one cut short

signVars == <<nvs, ram, open, socket, job, window, drawn, console, claimed, known>>

-----------------------------------------------------------------------------

\* Tokens and passwords are numbered as they, or their salts, are drawn.
Draw == 0..MaxDraws
Torn == MaxDraws + 1

Task == {"httpd", "relay"}
May(t, cmd) == cmd \in IF t = "httpd" THEN WebMay ELSE RelayMay

Idle      == [step |-> "idle"]
AuthJob   == [step : {"authed"}, fd : Socket]
TokenJob  == [step : {"salt", "hash", "keep", "persist", "swap", "install", "deauth"},
              cmd : {"setup", "password", "rotate"}, draw : Draw]
SwitchJob == [step : {"save", "door", "sweep"}, en : BOOLEAN, was : BOOLEAN]

NoSocket == [live |-> FALSE, authed |-> FALSE, shown |-> 0, foreign |-> FALSE]

SignTypeOK ==
    /\ nvs \in [enabled : BOOLEAN, token : Draw, salt : Draw, hash : Draw, show : BOOLEAN]
    /\ ram \in [enabled : BOOLEAN, token : Draw, pw : BOOLEAN, salt : Draw, hash : Draw,
                error : BOOLEAN]
    /\ open \in BOOLEAN
    /\ socket \in [Socket -> [live : BOOLEAN, authed : BOOLEAN, shown : Draw, foreign : BOOLEAN]]
    /\ job \in [Task -> {Idle} \cup AuthJob \cup TokenJob \cup SwitchJob]
    /\ window \in BOOLEAN /\ drawn \in Draw /\ console \in Draw
    /\ claimed \in BOOLEAN /\ known \in Draw \cup {Torn}

At(t, s)  == job[t].step = s
Go(t, j)  == job' = [job EXCEPT ![t] = j]
Then(t, s) == Go(t, [job[t] EXCEPT !.step = s])

\* ws_server_fd_deauth_all, ws_server_close_unauthed.
Deauthed    == [s \in Socket |-> [socket[s] EXCEPT !.authed = FALSE]]
SignedInOnly == [s \in Socket |-> IF socket[s].authed THEN socket[s] ELSE NoSocket]

-----------------------------------------------------------------------------
(* Boot.                                                                   *)

Blank == [enabled |-> TRUE, token |-> 0, salt |-> 0, hash |-> 0, show |-> FALSE]

Restarted ==
    /\ socket' = [s \in Socket |-> NoSocket]
    /\ job' = [t \in Task |-> Idle]
    /\ claimed' = FALSE

\* auth_init when zhac_auth does not open: sign-in on, with a token of this boot.
BootLocked(n) ==
    /\ drawn < MaxDraws /\ drawn' = drawn + 1
    /\ nvs' = n
    /\ ram' = [enabled |-> TRUE, token |-> drawn', pw |-> FALSE, salt |-> 0, hash |-> 0,
               error |-> TRUE]
    /\ open' = FALSE
    /\ console' = drawn'

\* auth_init otherwise.  A token drawn now may fail to be saved.
BootNormal(n) ==
    LET fresh == n.token = 0
        pw    == n.salt # 0 /\ n.hash # 0
        token == IF fresh THEN drawn' ELSE n.token
    IN  /\ drawn' = IF fresh THEN drawn + 1 ELSE drawn
        /\ drawn' <= MaxDraws
        /\ \E saved \in BOOLEAN :
               nvs' = [n EXCEPT !.token = IF fresh /\ ~saved THEN 0 ELSE token, !.show = FALSE]
        /\ ram' = [enabled |-> n.enabled, token |-> token, pw |-> pw,
                   salt |-> n.salt, hash |-> n.hash, error |-> FALSE]
        /\ open' = ~n.enabled
        /\ console' = IF n.enabled /\ (~pw \/ n.show) THEN token ELSE 0

Boot(n) == Restarted /\ (BootLocked(n) \/ BootNormal(n))

SignInit ==
    /\ nvs = [Blank EXCEPT !.token = 1]
    /\ ram = [enabled |-> TRUE, token |-> 1, pw |-> FALSE, salt |-> 0, hash |-> 0,
              error |-> FALSE]
    /\ open = FALSE
    /\ socket = [s \in Socket |-> NoSocket]
    /\ job = [t \in Task |-> Idle]
    /\ window = TRUE /\ drawn = 1 /\ console = 1 /\ claimed = FALSE /\ known = 0

\* Power fails, or the hub crashes or restarts, whatever its tasks were doing.
PowerCycle == Boot(nvs) /\ window' = TRUE /\ UNCHANGED known
Restart    == Boot(nvs) /\ UNCHANGED <<window, known>>

\* system.storage_reset: NVS is erased and the hub restarts.
StorageReset == At("httpd", "idle") /\ Boot(Blank) /\ known' = 0 /\ UNCHANGED window

WindowCloses ==
    /\ window /\ window' = FALSE
    /\ UNCHANGED <<nvs, ram, open, socket, job, drawn, console, claimed, known>>

-----------------------------------------------------------------------------
(* Web sockets (ws_server) and the frame they sign in with.                *)

\* The upgrade filter (auth_request_allowed) keeps other sites' pages out while
\* sign-in is off.
Connect(s, foreign) ==
    /\ At("httpd", "idle") /\ ~socket[s].live
    /\ foreign => ram.enabled
    /\ socket' = [socket EXCEPT ![s] = [live |-> TRUE, authed |-> open, shown |-> 0,
                                        foreign |-> foreign]]
    /\ UNCHANGED <<nvs, ram, open, job, window, drawn, console, claimed, known>>

\* dispatch_envelope: a socket that is not signed in shows the token ...
AuthFrame(s) ==
    /\ At("httpd", "idle") /\ socket[s].live /\ ~socket[s].authed
    /\ socket' = [socket EXCEPT ![s].shown = ram.token]
    /\ Go("httpd", [step |-> "authed", fd |-> s])
    /\ UNCHANGED <<nvs, ram, open, window, drawn, console, claimed, known>>

\* ... and is flagged, if it is still there.
SetAuthed ==
    /\ At("httpd", "authed")
    /\ socket' = [socket EXCEPT ![job["httpd"].fd].authed = socket[job["httpd"].fd].live]
    /\ Go("httpd", Idle)
    /\ UNCHANGED <<nvs, ram, open, window, drawn, console, claimed, known>>

-----------------------------------------------------------------------------
(* The password (handle_setup, handle_password, password_store).           *)

Draws(t, step, cmd) ==
    /\ drawn < MaxDraws /\ drawn' = drawn + 1
    /\ Go(t, [step |-> step, cmd |-> cmd, draw |-> drawn'])

Setup ==
    /\ At("httpd", "idle")
    /\ ~ram.error /\ ~ram.pw /\ window
    /\ Draws("httpd", "salt", "setup")
    /\ UNCHANGED <<nvs, ram, open, socket, window, console, claimed, known>>

\* With the right password; with salt and hash of different passwords none is.
Password ==
    /\ At("httpd", "idle")
    /\ ram.pw => ram.salt = ram.hash
    /\ Draws("httpd", "salt", "password")
    /\ UNCHANGED <<nvs, ram, open, socket, window, console, claimed, known>>

\* A lockout on the password asks the next boot for the token (note_lockout).
NoteLockout ==
    /\ At("httpd", "idle") /\ ram.pw /\ ~ram.error
    /\ nvs' = [nvs EXCEPT !.show = TRUE]
    /\ UNCHANGED <<ram, open, socket, job, window, drawn, console, claimed, known>>

\* The storage refuses a write: 500 persist failed.
StoreFails ==
    /\ job["httpd"].step \in {"salt", "hash"}
    /\ Go("httpd", Idle)
    /\ UNCHANGED <<nvs, ram, open, socket, window, drawn, console, claimed, known>>

StoreSalt ==
    /\ At("httpd", "salt")
    /\ nvs' = [nvs EXCEPT !.salt = job["httpd"].draw]
    /\ known' = Torn
    /\ Then("httpd", "hash")
    /\ UNCHANGED <<ram, open, socket, window, drawn, console, claimed>>

StoreHash ==
    /\ At("httpd", "hash")
    /\ nvs' = [nvs EXCEPT !.hash = job["httpd"].draw]
    /\ known' = job["httpd"].draw
    /\ Then("httpd", "keep")
    /\ UNCHANGED <<ram, open, socket, window, drawn, console, claimed>>

\* Mutant of KeepPassword: the salt of before stays in RAM.
KeepPasswordOldSalt ==
    /\ At("httpd", "keep") /\ drawn < MaxDraws
    /\ ram' = [ram EXCEPT !.pw = TRUE, !.hash = job["httpd"].draw]
    /\ drawn' = drawn + 1
    /\ Go("httpd", [job["httpd"] EXCEPT !.step = "persist", !.draw = drawn'])
    /\ UNCHANGED <<nvs, open, socket, window, console, claimed, known>>

KeepPassword ==
    /\ At("httpd", "keep") /\ drawn < MaxDraws
    /\ ram' = [ram EXCEPT !.pw = TRUE, !.salt = job["httpd"].draw, !.hash = job["httpd"].draw]
    /\ drawn' = drawn + 1
    /\ Go("httpd", [job["httpd"] EXCEPT !.step = "persist", !.draw = drawn'])
    /\ UNCHANGED <<nvs, open, socket, window, console, claimed, known>>

-----------------------------------------------------------------------------
(* The token (auth_rotate_token).                                          *)

Rotate(t) ==
    /\ At(t, "idle") /\ May(t, "rotate")
    /\ Draws(t, "persist", "rotate")
    /\ UNCHANGED <<nvs, ram, open, socket, window, console, claimed, known>>

Persist(t) ==
    /\ At(t, "persist")
    /\ \/ nvs' = [nvs EXCEPT !.token = job[t].draw] /\ Then(t, "swap")
       \/ UNCHANGED nvs /\ Go(t, Idle)
    /\ UNCHANGED <<ram, open, socket, window, drawn, console, claimed, known>>

\* The new token is the one from here on; set-up and password answer with it.
Swap(t) ==
    /\ At(t, "swap")
    /\ ram' = [ram EXCEPT !.token = job[t].draw]
    /\ claimed' = (claimed \/ job[t].cmd = "setup")
    /\ IF ram.enabled THEN Then(t, "install") ELSE Go(t, Idle)
    /\ UNCHANGED <<nvs, open, socket, window, drawn, console, known>>

\* ws_server_set_api_token.
Install(t) ==
    /\ At(t, "install")
    /\ open' = FALSE
    /\ Then(t, "deauth")
    /\ UNCHANGED <<nvs, ram, socket, window, drawn, console, claimed, known>>

\* Mutant of Deauth: the sockets of the old token stay signed in.
DeauthNone(t) ==
    /\ At(t, "deauth")
    /\ Go(t, Idle)
    /\ UNCHANGED <<nvs, ram, open, socket, window, drawn, console, claimed, known>>

\* ws_server_fd_deauth_all.
Deauth(t) ==
    /\ At(t, "deauth")
    /\ socket' = Deauthed
    /\ Go(t, Idle)
    /\ UNCHANGED <<nvs, ram, open, window, drawn, console, claimed, known>>

-----------------------------------------------------------------------------
(* Turning sign-in on and off (auth_set_enabled).                          *)

SetEnabled(t, en) ==
    /\ At(t, "idle") /\ May(t, "settings")
    /\ ram' = [ram EXCEPT !.enabled = en]
    /\ Go(t, [step |-> "save", en |-> en, was |-> ram.enabled])
    /\ UNCHANGED <<nvs, open, socket, window, drawn, console, claimed, known>>

\* The new setting is saved, if the storage lets it.
SaveEnabled(t) ==
    /\ At(t, "save")
    /\ nvs' \in {nvs, [nvs EXCEPT !.enabled = job[t].en]}
    /\ Then(t, "door")
    /\ UNCHANGED <<ram, open, socket, window, drawn, console, claimed, known>>

SetDoor(t) ==
    /\ At(t, "door")
    /\ open' = ~job[t].en
    /\ IF job[t].en # job[t].was THEN Then(t, "sweep") ELSE Go(t, Idle)
    /\ UNCHANGED <<nvs, ram, socket, window, drawn, console, claimed, known>>

\* On: everyone signs in again.  Off: who never signed in goes (close_unauthed).
Sweep(t) ==
    /\ At(t, "sweep")
    /\ socket' = IF job[t].en THEN Deauthed
                 ELSE SignedInOnly
    /\ Go(t, Idle)
    /\ UNCHANGED <<nvs, ram, open, window, drawn, console, claimed, known>>

-----------------------------------------------------------------------------

TaskStep(t) ==
    \/ Rotate(t) \/ Persist(t) \/ Swap(t) \/ Install(t) \/ Deauth(t)
    \/ \E en \in BOOLEAN : SetEnabled(t, en)
    \/ SaveEnabled(t) \/ SetDoor(t) \/ Sweep(t)

SignNext ==
    \/ PowerCycle \/ Restart \/ StorageReset \/ WindowCloses
    \/ \E s \in Socket : AuthFrame(s) \/ \E foreign \in BOOLEAN : Connect(s, foreign)
    \/ SetAuthed
    \/ Setup \/ Password \/ NoteLockout
    \/ StoreFails \/ StoreSalt \/ StoreHash \/ KeepPassword
    \/ \E t \in Task : TaskStep(t)

SignSpec == SignInit /\ [][SignNext]_signVars

-----------------------------------------------------------------------------

Quiet == \A t \in Task : job[t].step \notin {"swap", "install", "deauth", "save", "door", "sweep"}

\* With sign-in on, a socket is signed in by the token there is now: neither an
\* older one nor a socket let in while sign-in was off stays (auth.cpp:478, :502).  And
\* a page of another site is never signed in without having shown a token, however
\* sign-in is switched while it connects (auth.cpp:481).
SessionsHoldToken ==
    Quiet =>
        /\ ram.enabled => ~open /\ \A s \in Socket : socket[s].authed => socket[s].shown = ram.token
        /\ \A s \in Socket : socket[s].authed /\ socket[s].foreign => socket[s].shown # 0

\* A password that was stored is the hub's from then on, across restarts and
\* failed changes; nobody sets up a hub that has one (handle_setup); and once set-up
\* has answered, the token the serial console showed at this boot is of no use
\* (auth.cpp:361).
OwnerStays ==
    /\ known \notin {0, Torn} /\ ~ram.error /\ job["httpd"].step # "keep" =>
           ram.pw /\ ram.salt = known /\ ram.hash = known
    /\ At("httpd", "salt") /\ job["httpd"].cmd = "setup" => known \in {0, Torn}
    /\ claimed => ram.token # console

=============================================================================
