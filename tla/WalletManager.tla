--------------------------- MODULE WalletManager ---------------------------
(***************************************************************************)
(* keosd: wallet_manager and its soft_wallets, in processes that may share *)
(* a wallet directory.  A wallet is three copies of its keys: the plain    *)
(* ones while it is unlocked, the cipher text in memory, and the file,     *)
(* truncated and written anew after every change.  A cipher text is what   *)
(* it opens to: a password and the keys.  Whether the unlock timeout has   *)
(* passed when a call comes in, and what becomes of the write of a file,   *)
(* are inputs of the call.                                                 *)
(*                                                                         *)
(* A process makes the directory its own in three steps: it creates        *)
(* wallet.lock where there is none, opens the file the path names, and     *)
(* locks that file.  A process that stops removes the path, whichever file *)
(* it names by then.  Files are numbers; 0 is no file.                     *)
(***************************************************************************)
EXTENDS Integers, FiniteSets

CONSTANTS
    Keosds, Names, Keys,
    MaxPasswords    \* bound: passwords generated

VARIABLES
    file,       \* name -> [exists, whole, pw, keys]: <name>.wallet
    procs,      \* process -> [stage, lock]: how far it came, and the lock file it has open
    lock_path,  \* the file that wallet.lock names
    raced,      \* history: a lock file was removed that another process had opened to lock it
    wallets,    \* process -> name -> [open, cipher, keys, checksum]
    password,   \* name -> the password create returned last
    acked,      \* name -> keys whose import or creation was acknowledged
    generated   \* passwords generated so far

locks == <<procs, lock_path, raced>>
vars == <<file, locks, wallets, password, acked, generated>>

Cipher(pw, keys) == [pw |-> pw, keys |-> keys]
Closed == [open |-> FALSE, cipher |-> Cipher(0, {}), keys |-> {}, checksum |-> 0]

\* soft_wallet: 0 is the empty checksum.
is_locked(w) == w.checksum = 0
encrypt_keys(w) == [w EXCEPT !.cipher = IF is_locked(w) THEN @ ELSE Cipher(w.checksum, w.keys)]
lock(w) == [encrypt_keys(w) EXCEPT !.keys = {}, !.checksum = 0]
opens(w, pw) == pw # 0 /\ w.cipher.pw = pw
unlock(w, pw) == [w EXCEPT !.keys = w.cipher.keys, !.checksum = pw]
set_password(w, pw) == lock([w EXCEPT !.checksum = pw])

NoFile == [exists |-> FALSE, whole |-> FALSE, pw |-> 0, keys |-> {}]
Torn == [NoFile EXCEPT !.exists = TRUE]

\* The file is opened, which truncates it, and written. It may be refused, and the call fails; the
\* write may fall short, which nobody looks at; the process may die before it.
save_wallet_file(w, outcome, old) ==
    CASE outcome = "written" -> [exists |-> TRUE, whole |-> TRUE, pw |-> encrypt_keys(w).cipher.pw, keys |-> encrypt_keys(w).cipher.keys]
      [] outcome = "refused" -> old
      [] outcome \in {"short", "died"} -> Torn
Returns(outcome) == outcome \in {"written", "short"}
Outcomes == {"written", "refused", "short", "died"}

-----------------------------------------------------------------------------
running == {p \in Keosds : procs[p].stage = "running"}
Up(p) == p \in running

Down == [stage |-> "down", lock |-> 0]
AllClosed == [n \in Names |-> Closed]

\* The process ends; the system releases its lock.
Ends(p) == procs' = [procs EXCEPT ![p] = Down]

\* check_timeout, before every call: the wallets the call finds.
check_timeout(p, late) ==
    [n \in Names |-> IF late /\ wallets[p][n].open /\ ~is_locked(wallets[p][n])
                     THEN lock(wallets[p][n]) ELSE wallets[p][n]]

Keeps(p, ws) == wallets' = [wallets EXCEPT ![p] = ws]

\* A call that only reads, and one that is refused after the timeout was checked.
read_only(p, late) ==
    /\ Up(p)
    /\ Keeps(p, check_timeout(p, late))
    /\ UNCHANGED <<file, locks, password, acked, generated>>

\* What a call leaves: the wallets with w under n if it returns, the wallets as they were if it is
\* refused, nothing if the process dies.
After(p, n, ws, w, refused, outcome) ==
    /\ Keeps(p, CASE Returns(outcome) -> [ws EXCEPT ![n] = encrypt_keys(w)]
                  [] outcome = "refused" -> refused
                  [] outcome = "died" -> AllClosed)
    /\ file' = [file EXCEPT ![n] = save_wallet_file(w, outcome, @)]
    /\ IF outcome = "died" THEN Ends(p) ELSE UNCHANGED procs
    /\ UNCHANGED <<lock_path, raced>>

create(p, n, late, outcome) ==
    /\ Up(p) /\ ~file[n].exists /\ generated < MaxPasswords
    /\ LET pw == generated + 1
           w  == unlock(lock(unlock(set_password([Closed EXCEPT !.open = TRUE], pw), pw)), pw)
           ws == check_timeout(p, late)
       IN  /\ generated' = pw
           /\ After(p, n, ws, w, ws, outcome)
           /\ password' = [password EXCEPT ![n] = IF Returns(outcome) THEN pw ELSE @]
           /\ acked' = [acked EXCEPT ![n] = {}]

\* A torn file cannot be parsed.
Readable(n) == file[n].exists /\ file[n].whole
Loaded(n) == [Closed EXCEPT !.open = TRUE, !.cipher = Cipher(file[n].pw, file[n].keys)]

open(p, n, late) ==
    /\ Up(p) /\ Readable(n)
    /\ Keeps(p, [check_timeout(p, late) EXCEPT ![n] = Loaded(n)])
    /\ UNCHANGED <<file, locks, password, acked, generated>>

lock_one(p, n, late) ==
    /\ Up(p) /\ wallets[p][n].open
    /\ LET ws == check_timeout(p, late)
       IN  Keeps(p, IF is_locked(ws[n]) THEN ws ELSE [ws EXCEPT ![n] = lock(@)])
    /\ UNCHANGED <<file, locks, password, acked, generated>>

lock_all(p) ==
    /\ Up(p)
    /\ Keeps(p, [n \in Names |-> IF wallets[p][n].open /\ ~is_locked(wallets[p][n])
                                 THEN lock(wallets[p][n]) ELSE wallets[p][n]])
    /\ UNCHANGED <<file, locks, password, acked, generated>>

\* A wallet that is not open is opened first, and stays open when the password is wrong.
unlock_one(p, n, pw, late) ==
    /\ Up(p)
    /\ LET found == check_timeout(p, late)
           ws    == IF found[n].open \/ ~Readable(n) THEN found ELSE [found EXCEPT ![n] = Loaded(n)]
       IN  Keeps(p, IF ws[n].open /\ is_locked(ws[n]) /\ opens(ws[n], pw)
                    THEN [ws EXCEPT ![n] = unlock(@, pw)] ELSE ws)
    /\ UNCHANGED <<file, locks, password, acked, generated>>

\* The change stays in memory when the file is refused.
Saved(p, n, ws, w, outcome, ok) ==
    /\ After(p, n, ws, w, [ws EXCEPT ![n] = encrypt_keys(w)], outcome)
    /\ acked' = [acked EXCEPT ![n] = IF Returns(outcome) THEN ok ELSE @ \cap ok]
    /\ UNCHANGED <<password, generated>>

\* import_key, and create_key whose new key is any key the wallet does not have.
import_key(p, n, k, late, outcome) ==
    LET ws == check_timeout(p, late)
    IN  /\ Up(p) /\ ws[n].open /\ ~is_locked(ws[n]) /\ k \notin ws[n].keys
        /\ Saved(p, n, ws, [ws[n] EXCEPT !.keys = @ \cup {k}], outcome, acked[n] \cup {k})

remove_key(p, n, k, pw, late, outcome) ==
    LET ws == check_timeout(p, late)
    IN  /\ Up(p) /\ ws[n].open /\ ~is_locked(ws[n]) /\ opens(ws[n], pw) /\ k \in ws[n].keys
        /\ Saved(p, n, ws, [ws[n] EXCEPT !.keys = @ \ {k}], outcome, acked[n] \ {k})

\* sign_transaction: every key is looked for in the unlocked wallets.
can_sign(p, keys) == \A k \in keys : \E n \in Names : ~is_locked(wallets[p][n]) /\ k \in wallets[p][n].keys
get_public_keys(p) == UNION {wallets[p][n].keys : n \in {m \in Names : ~is_locked(wallets[p][m])}}

-----------------------------------------------------------------------------
Unused == CHOOSE i \in 1 .. Cardinality(Keosds) + 1 : i # lock_path /\ \A p \in Keosds : procs[p].lock # i

\* initialize_lock: the file is there, or created.
create_lock_file(p) ==
    /\ procs[p].stage = "down"
    /\ procs' = [procs EXCEPT ![p].stage = "created"]
    /\ lock_path' = IF lock_path = 0 THEN Unused ELSE lock_path
    /\ UNCHANGED <<file, raced, wallets, password, acked, generated>>

\* It is opened through its path, which is an error when it is gone.
open_lock_file(p) ==
    /\ procs[p].stage = "created"
    /\ IF lock_path = 0 THEN Ends(p)
       ELSE procs' = [procs EXCEPT ![p] = [stage |-> "opened", lock |-> lock_path]]
    /\ UNCHANGED <<file, lock_path, raced, wallets, password, acked, generated>>

\* The directory is not locked against the other processes.
try_lock_unchecked(p) ==
    /\ procs[p].stage = "opened"
    /\ procs' = [procs EXCEPT ![p].stage = "running"]
    /\ UNCHANGED <<file, lock_path, raced, wallets, password, acked, generated>>

\* The lock fails when another process has locked the same file.
try_lock(p) ==
    /\ procs[p].stage = "opened"
    /\ IF \E q \in running : procs[q].lock = procs[p].lock THEN Ends(p)
       ELSE procs' = [procs EXCEPT ![p].stage = "running"]
    /\ UNCHANGED <<file, lock_path, raced, wallets, password, acked, generated>>

\* ~wallet_manager, also after start_lock_watch found no lock file: the path is removed, then the
\* lock released.
stop(p) ==
    /\ Up(p)
    /\ Ends(p)
    /\ Keeps(p, AllClosed)
    /\ lock_path' = 0
    /\ raced' = (raced \/ \E q \in Keosds : procs[q] = [stage |-> "opened", lock |-> procs[p].lock])
    /\ UNCHANGED <<file, password, acked, generated>>

\* The process ends without its destructor.
crash(p) ==
    /\ procs[p].stage # "down"
    /\ Ends(p)
    /\ Keeps(p, AllClosed)
    /\ UNCHANGED <<file, lock_path, raced, password, acked, generated>>

\* "This can happen if the wallet file is removed while eos-walletd is running."
remove_file(n) ==
    /\ file[n].exists
    /\ file' = [file EXCEPT ![n] = NoFile]
    /\ acked' = [acked EXCEPT ![n] = {}]
    /\ password' = [password EXCEPT ![n] = 0]
    /\ UNCHANGED <<locks, wallets, generated>>

Init ==
    /\ file = [n \in Names |-> NoFile]
    /\ procs = [p \in Keosds |-> Down] /\ lock_path \in 0 .. 1 /\ raced = FALSE
    /\ wallets = [p \in Keosds |-> AllClosed]
    /\ password = [n \in Names |-> 0]
    /\ acked = [n \in Names |-> {}]
    /\ generated = 0

Next ==
    \/ \E p \in Keosds, late \in BOOLEAN, n \in Names :
        \/ read_only(p, late)
        \/ open(p, n, late)
        \/ lock_one(p, n, late)
        \/ \E pw \in 1 .. MaxPasswords : unlock_one(p, n, pw, late)
        \/ \E outcome \in Outcomes :
            \/ create(p, n, late, outcome)
            \/ \E k \in Keys :
                \/ import_key(p, n, k, late, outcome)
                \/ \E pw \in 1 .. MaxPasswords : remove_key(p, n, k, pw, late, outcome)
    \/ \E p \in Keosds :
        \/ lock_all(p)
        \/ create_lock_file(p) \/ open_lock_file(p) \/ try_lock(p)
        \/ stop(p) \/ crash(p)
    \/ \E n \in Names : remove_file(n)

Spec == Init /\ [][Next]_vars

-----------------------------------------------------------------------------
\* The password create returned opens the file, and the file has every key the wallet
\* acknowledged: through locks, timeouts, refused saves, crashes and restarts, and with another
\* keosd that is started on the directory. A file whose last write fell short or was cut off is
\* excepted until the next save, and so is what follows when a process stops while another is
\* between opening and locking wallet.lock: two may then run ("technically somewhat racy").
KeysRecoverable ==
    ~raced => \A n \in Names :
        password[n] # 0 /\ file[n].whole => file[n].pw = password[n] /\ acked[n] \subseteq file[n].keys

\* A locked wallet holds no plain key, and what get_public_keys offers is what can be signed with.
SignsWhatItLists ==
    \A p \in Keosds :
        /\ \A n \in Names : is_locked(wallets[p][n]) => wallets[p][n].keys = {}
        /\ \A keys \in SUBSET Keys : can_sign(p, keys) <=> keys \subseteq get_public_keys(p)
=============================================================================
