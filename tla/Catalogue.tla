------------------------------ MODULE Catalogue ------------------------------
(*****************************************************************************)
(* What the shop sells, and how administrators fill it: categories, products *)
(* with their files. One administrator goes through the wizards of the       *)
(* Telegram bot (the state and data of aiogram's FSM), the others work in    *)
(* the panel and in the Bale bot.                                            *)
(*                                                                           *)
(* Updates of the bot overlap as in module Conversation: a task gives way at *)
(* each call of the database, never at an FSM operation. A list of file ids  *)
(* is the set of its documents, and a document is known by what it was sent  *)
(* for: several may be the same file. An answer is known by the run of the   *)
(* wizard it was given in. Pictures and who may do what are left out;        *)
(* whether products and categories are shown is a matter of Checkout.        *)
(*****************************************************************************)
EXTENDS Integers, FiniteSetsExt

CONSTANTS
  Category, Product,  \* bound what is ever created: ids are not used twice
  Slot,        \* bounds the updates and requests handled at the same time
  MaxRuns,     \* bounds how often the wizard of a new product begins
  NoState, None, Idle

Run == 1..MaxRuns
Document == ({"run"} \X Run) \cup ({"product"} \X Product)
Others == MaxRuns + 1  \* in place of a run: added outside the wizard

\* What the wizard of a new product asks for, in order; a state is named for what it
\* waits for.
Question == <<"category_id", "name", "price", "description", "preview_file_id">>
Answer == {Question[i] : i \in 1..5}
State == Answer \cup {"new_files", "files", "photo", "category_name"}

ASSUME CatalogueAssumption ==
  /\ MaxRuns \in Nat \ {0} /\ Product \subseteq Nat \ {0} /\ Category \subseteq Nat \ {0}
  /\ None \notin Category \cup Product /\ NoState \notin State

Data == [answer : [Answer -> 0..MaxRuns], category : Category \cup {None},
         files : SUBSET Document, product : Product \cup {None}]
NoData == [answer |-> [a \in Answer |-> 0], category |-> None, files |-> {}, product |-> None]

\* A handler or a request between two of its steps.
Task == [pc : {"categories", "category", "clear"}]
        \cup [pc : {"pick"}, product : Product, goal : {"page", "files", "photo"}]
        \cup [pc : {"product"}, category : Category, run : Run, files : SUBSET Document]
        \cup [pc : {"check", "files"}, product : Product, files : SUBSET Document]
        \cup [pc : {"look", "upload"}, product : Product]
        \cup [pc : {"remove"}, file : Document]
        \cup [pc : {"drop"}, category : Category]

VARIABLES
  state, data, \* fsm_storage, of the administrator
  there,       \* categories that exist
  in,          \* products.category_id, None when there is no such product
  born,        \* categories that ever existed
  files,       \* product_files
  task,        \* of every slot
  run,         \* history: runs of the wizard
  made         \* history: the run that added a product, or Others; 0 before

fsm == <<state, data>>
shop == <<there, born, in, files>>
history == <<run, made>>
vars == <<fsm, shop, task, history>>

TypeOK ==
  /\ state \in State \cup {NoState} /\ data \in Data
  /\ there \subseteq born /\ born \subseteq Category /\ in \in [Product -> Category \cup {None}]
  /\ files \in [Product -> SUBSET Document]
  /\ task \in [Slot -> Task \cup {Idle}]
  /\ run \in 0..MaxRuns /\ made \in [Product -> 0..Others]

Init ==
  /\ state = NoState /\ data = NoData
  /\ there = {} /\ born = {} /\ in = [p \in Product |-> None]
  /\ files = [p \in Product |-> {}]
  /\ task = [s \in Slot |-> Idle]
  /\ run = 0 /\ made = [p \in Product |-> 0]

-----------------------------------------------------------------------------
(* database.py                                                                *)

Exists(p) == in[p] # None

AddCategory ==
  /\ born # Category
  /\ there' = there \cup {Min(Category \ born)} /\ born' = born \cup {Min(Category \ born)}
  /\ UNCHANGED <<in, files>>

\* ON DELETE CASCADE takes the products and their files along.
DeleteProducts(P) ==
  /\ in' = [p \in Product |-> IF p \in P THEN None ELSE in[p]]
  /\ files' = [p \in Product |-> IF p \in P THEN {} ELSE files[p]]
DeleteCategory(c) ==
  LET P == {p \in Product : in[p] = c}
  IN /\ DeleteProducts(P)
     /\ there' = there \ {c}
     /\ UNCHANGED <<born>>
DeleteProduct(p) ==
  /\ DeleteProducts({p})
  /\ UNCHANGED <<there, born>>

\* The foreign key refuses a product whose category is gone.
FreeIds == {p \in Product : made[p] = 0}
CanAddProduct(c) == c \in there
AddProduct(c, r) ==
  /\ in' = [in EXCEPT ![Min(FreeIds)] = c]
  /\ made' = [made EXCEPT ![Min(FreeIds)] = r]
  /\ UNCHANGED <<there, born, files, run>>

\* It refuses files of a product that is gone. Files it has are not added again.
CanAddFiles(p) == Exists(p)
AddFiles(p, F) ==
  /\ files' = [files EXCEPT ![p] = @ \cup F]
  /\ UNCHANGED <<there, born, in>>

\* delete_product_file goes by file_id alone: every product loses the file, whatever it
\* was sent for (here: all the documents or none are the same file).
DeleteFile(f) ==
  /\ \E same \in {{f}, Document} : files' = [p \in Product |-> files[p] \ same]
  /\ UNCHANGED <<there, born, in>>

-----------------------------------------------------------------------------
(* The FSM and the tasks.                                                     *)

Go(s, t) == task' = [task EXCEPT ![s] = t]
At(s, p) == task[s] # Idle /\ task[s].pc = p
End(s) == Go(s, Idle)

\* Mutation: the data go, the state stays.
ClearDataOnly == data' = NoData /\ UNCHANGED state

Clear == state' = NoState /\ data' = NoData

Begin(s, t) == task[s] = Idle /\ Go(s, t) /\ UNCHANGED <<shop, history>>
BeginOnly(s, t) == Begin(s, t) /\ UNCHANGED fsm
Sends(f) == data' = [data EXCEPT !.files = @ \cup {f}]

-----------------------------------------------------------------------------
(* The pages of the panel in the bot, and what ends a wizard.                 *)

\* open_admin_panel, cb_back_panel, cb_admin_category
OpenPanel == Clear /\ UNCHANGED <<shop, task, history>>
\* /admin and /cancel
CommandOutside == state = NoState /\ OpenPanel
CancelFiles == Clear /\ UNCHANGED <<shop, task, history>>

\* The end of a handler that clears when it is through, whatever has begun meanwhile.
LateClear(s) == At(s, "clear") /\ Clear /\ End(s) /\ UNCHANGED <<shop, history>>

\* A call of the database or of Telegram raises, or the process stops: the handler is
\* over, its conversation as it was.
Fail(s) == task[s] # Idle /\ End(s) /\ UNCHANGED <<fsm, shop, history>>

-----------------------------------------------------------------------------
(* Categories.                                                                *)

AskCategoryName ==
  state' = "category_name" /\ UNCHANGED <<data, shop, task, history>>
TypeCategoryName(s) == state = "category_name" /\ BeginOnly(s, [pc |-> "category"])
StoreCategory(s) ==
  /\ At(s, "category") /\ AddCategory
  /\ Go(s, [pc |-> "clear"])
  /\ UNCHANGED <<fsm, history>>

CategoryDelete(c) == c \in there /\ DeleteCategory(c) /\ UNCHANGED <<fsm, task, history>>

-----------------------------------------------------------------------------
(* The wizard of a new product.                                               *)

Ask(x) == state' = x
Put(d) == data' = d
Answered(a) == [data EXCEPT !.answer[a] = run]

\* cb_admin_prod_add looks for a category that is shown; each may be hidden.
NewProduct(s) == BeginOnly(s, [pc |-> "categories"])
AskCategory(s) ==
  /\ At(s, "categories") /\ End(s)
  /\ \/ /\ there # {} /\ run < MaxRuns
        /\ Ask("category_id") /\ run' = run + 1
        /\ UNCHANGED <<data, made>>
     \/ UNCHANGED <<fsm, history>>
  /\ UNCHANGED shop

\* The buttons show categories that were active then; they may be gone.
PickCategory(c) ==
  /\ state = "category_id"
  /\ Put([Answered("category_id") EXCEPT !.category = c]) /\ Ask("name")
  /\ UNCHANGED <<shop, task, history>>
TypeName ==
  /\ state = "name"
  /\ Put(Answered("name")) /\ Ask("price")
  /\ UNCHANGED <<shop, task, history>>
TypePrice ==
  /\ state = "price"
  /\ Put(Answered("price")) /\ Ask("description")
  /\ UNCHANGED <<shop, task, history>>
TypeDescription ==
  /\ state = "description"
  /\ Put(Answered("description")) /\ Ask("preview_file_id")
  /\ UNCHANGED <<shop, task, history>>

\* Mutation: the list of files is not emptied.
KeepFiles ==
  /\ state = "preview_file_id"
  /\ Put(Answered("preview_file_id")) /\ Ask("new_files")
  /\ UNCHANGED <<shop, task, history>>

\* A photo, or /skip.
SendPreview ==
  /\ state = "preview_file_id"
  /\ Put([Answered("preview_file_id") EXCEPT !.files = {}]) /\ Ask("new_files")
  /\ UNCHANGED <<shop, task, history>>
SkipPreview == SendPreview

SendNewFile ==
  /\ state = "new_files" /\ Sends(<<"run", run>>)
  /\ UNCHANGED <<state, shop, task, history>>

\* "Done": cb_admin_add_product_done reads the data, then adds the product, then its
\* files, then clears.
NewProductDone(s) ==
  /\ state = "new_files" /\ data.files # {}
  /\ BeginOnly(s, [pc |-> "product", category |-> data.category,
                   run |-> data.answer["name"], files |-> data.files])
StoreProduct(s) ==
  LET t == task[s]
  IN /\ At(s, "product") /\ CanAddProduct(t.category) /\ FreeIds # {}
     /\ AddProduct(t.category, t.run)
     /\ Go(s, [pc |-> "files", product |-> Min(FreeIds), files |-> t.files])
     /\ UNCHANGED fsm

\* Mutation: no foreign key.
StoreFilesAnyway(s) ==
  LET t == task[s]
  IN /\ At(s, "files")
     /\ AddFiles(t.product, t.files)
     /\ Go(s, [pc |-> "clear"])
     /\ UNCHANGED <<fsm, history>>

StoreFiles(s) ==
  LET t == task[s]
  IN /\ At(s, "files") /\ CanAddFiles(t.product)
     /\ AddFiles(t.product, t.files)
     /\ Go(s, [pc |-> "clear"])
     /\ UNCHANGED <<fsm, history>>

-----------------------------------------------------------------------------
(* Products and their files.                                                  *)

ProductDelete(p) == Exists(p) /\ DeleteProduct(p) /\ UNCHANGED <<fsm, task, history>>

\* adm_file_pick, adm_file_add and adm_preview_set look at the product first.
FilesPage(s, p) == BeginOnly(s, [pc |-> "pick", product |-> p, goal |-> "page"])
AddFilesButton(s, p) == BeginOnly(s, [pc |-> "pick", product |-> p, goal |-> "files"])
PreviewButton(s, p) == BeginOnly(s, [pc |-> "pick", product |-> p, goal |-> "photo"])
Picked(s) ==
  LET p == task[s].product
  IN /\ At(s, "pick") /\ End(s)
     /\ \/ ~Exists(p) /\ UNCHANGED fsm
        \/ Exists(p) /\ task[s].goal = "page" /\ Clear
        \/ Exists(p) /\ task[s].goal = "files"
           /\ Put([data EXCEPT !.product = p, !.files = {}]) /\ Ask("files")
        \/ Exists(p) /\ task[s].goal = "photo"
           /\ Ask("photo") /\ UNCHANGED data
     /\ UNCHANGED <<shop, history>>

SendFile ==
  /\ state = "files" /\ Sends(<<"product", data.product>>)
  /\ UNCHANGED <<state, shop, task, history>>
FilesDone(s) ==
  /\ state = "files" /\ data.files # {}
  /\ BeginOnly(s, [pc |-> "check", product |-> data.product, files |-> data.files])
CheckProduct(s) ==
  /\ At(s, "check")
  /\ IF Exists(task[s].product)
     THEN Go(s, [task[s] EXCEPT !.pc = "files"]) /\ UNCHANGED fsm
     ELSE Clear /\ End(s)
  /\ UNCHANGED <<shop, history>>

\* Which product's picture it is is left out.
SendPhoto(s, p) == state = "photo" /\ BeginOnly(s, [pc |-> "look", product |-> p])
LookForPreview(s) ==
  /\ At(s, "look")
  /\ IF Exists(task[s].product)
     THEN Go(s, [pc |-> "clear"]) /\ UNCHANGED fsm
     ELSE Clear /\ End(s)
  /\ UNCHANGED <<shop, history>>

\* A file is looked up in the list of its product, then deleted.
FileDelete(s, p, f) ==
  /\ Exists(p) /\ f \in files[p]
  /\ BeginOnly(s, [pc |-> "remove", file |-> f])
RemoveFile(s) ==
  /\ At(s, "remove") /\ DeleteFile(task[s].file)
  /\ End(s) /\ UNCHANGED <<fsm, history>>

-----------------------------------------------------------------------------
(* The panel: a call each, but for an upload, which goes through Telegram.    *)

Elsewhere == UNCHANGED <<fsm, task>>
PanelAddCategory == AddCategory /\ Elsewhere /\ UNCHANGED history
PanelDeleteCategory(c) == DeleteCategory(c) /\ Elsewhere /\ UNCHANGED history
PanelAddProduct(c) ==
  /\ CanAddProduct(c) /\ FreeIds # {}
  /\ AddProduct(c, Others) /\ Elsewhere
PanelDeleteProduct(p) == DeleteProduct(p) /\ Elsewhere /\ UNCHANGED history
PanelUpload(s, p) == Exists(p) /\ BeginOnly(s, [pc |-> "upload", product |-> p])
KeepUpload(s) ==
  LET p == task[s].product
  IN /\ At(s, "upload") /\ CanAddFiles(p)
     /\ AddFiles(p, {<<"product", p>>})
     /\ End(s) /\ UNCHANGED <<fsm, history>>
PanelDeleteFile(f) == DeleteFile(f) /\ Elsewhere /\ UNCHANGED history

-----------------------------------------------------------------------------
(* The Bale bot. Its wizard keeps what it asked in memory; it calls an        *)
(* add_product_file that does not exist, so a product it adds has no files.   *)

BaleAddCategory == AddCategory /\ Elsewhere /\ UNCHANGED history
BaleAddProduct(c) ==
  /\ CanAddProduct(c) /\ FreeIds # {}
  /\ AddProduct(c, Others) /\ Elsewhere
BaleDeleteProduct(p) == Exists(p) /\ DeleteProduct(p) /\ Elsewhere /\ UNCHANGED history
\* It deletes a category without active products, which a product may become meanwhile.
BaleDeleteCategory(s, c) == BeginOnly(s, [pc |-> "drop", category |-> c])
DropCategory(s) ==
  /\ At(s, "drop") /\ DeleteCategory(task[s].category)
  /\ End(s) /\ UNCHANGED <<fsm, history>>
BaleDeleteFile(s, p, f) ==
  /\ Exists(p) /\ f \in files[p]
  /\ BeginOnly(s, [pc |-> "remove", file |-> f])

-----------------------------------------------------------------------------
Goes(s) ==
  \/ LateClear(s) \/ Fail(s) \/ StoreCategory(s) \/ AskCategory(s) \/ StoreProduct(s)
  \/ StoreFiles(s) \/ Picked(s) \/ CheckProduct(s) \/ LookForPreview(s) \/ RemoveFile(s)
  \/ KeepUpload(s) \/ DropCategory(s)

Wizard ==
  \/ OpenPanel \/ CommandOutside \/ CancelFiles \/ AskCategoryName
  \/ TypeName \/ TypePrice \/ TypeDescription \/ SendPreview \/ SkipPreview
  \/ \E c \in Category : PickCategory(c)
  \/ SendNewFile \/ SendFile

Buttons(s) ==
  \/ TypeCategoryName(s) \/ NewProduct(s) \/ NewProductDone(s) \/ FilesDone(s)
  \/ \E p \in Product :
       \/ FilesPage(s, p) \/ AddFilesButton(s, p) \/ PreviewButton(s, p)
       \/ PanelUpload(s, p) \/ SendPhoto(s, p)
       \/ \E f \in Document : FileDelete(s, p, f) \/ BaleDeleteFile(s, p, f)
  \/ \E c \in Category : BaleDeleteCategory(s, c)

AtOnce ==
  \/ PanelAddCategory \/ BaleAddCategory
  \/ \E c \in Category :
       \/ CategoryDelete(c) \/ PanelDeleteCategory(c)
       \/ PanelAddProduct(c) \/ BaleAddProduct(c)
  \/ \E p \in Product :
       ProductDelete(p) \/ PanelDeleteProduct(p) \/ BaleDeleteProduct(p)
  \/ \E f \in Document : PanelDeleteFile(f)

Next == Wizard \/ AtOnce \/ \E s \in Slot : Goes(s) \/ Buttons(s)

Spec == Init /\ [][Next]_vars

-----------------------------------------------------------------------------
(* What the administrators may rely on.                                       *)

\* A wizard that asks for something has the answers before it, all of the same run, and
\* knows which product it is about: handlers that end late, other wizards begun in
\* between and old buttons leave no conversation with half of its data.
DataFitsState ==
  /\ \A i \in 1..5, j \in 1..5 :
       (state = Question[i] /\ j < i) \/ state = "new_files"
         => data.answer[Question[j]] = run
  /\ state \in {"name", "price", "description", "preview_file_id", "new_files"}
       => data.category # None
  /\ state = "files" => data.product # None

\* A product has no file that was not sent for it: in its own wizard, to its own page, or
\* uploaded for it in the panel.
FilesWhereSent ==
  \A p \in Product : \A f \in files[p] :
    f = <<"product", p>> \/ (f = <<"run", made[p]>> /\ made[p] \in Run)

\* No product without a category and no file without a product, although both may be
\* deleted elsewhere after a handler saw them.
NoOrphans ==
  \A p \in Product :
    /\ Exists(p) => in[p] \in there
    /\ files[p] # {} => Exists(p)
=============================================================================
