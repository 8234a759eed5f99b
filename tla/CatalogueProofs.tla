----------------------------- MODULE CatalogueProofs -----------------------------
(* What holds of categories, products and files for any number of them, of        *)
(* wizards and of requests that are handled at the same time.                     *)
EXTENDS Catalogue, WellFoundedInduction, TLAPS

\* The files a wizard has collected were sent in this run of it, or for its product.
FilesOfWizard ==
  /\ state \in Answer \cup {"new_files"} => run \in Run
  /\ state = "new_files" => data.files \subseteq {<<"run", run>>}
  /\ state = "files" => data.files \subseteq {<<"product", data.product>>}

\* What a task is about to store belongs together.
SentFor(f, p) == f = <<"product", p>> \/ (f = <<"run", made[p]>> /\ made[p] \in Run)
Fitting(t) ==
  /\ t.pc = "product" => t.files \subseteq {<<"run", t.run>>}
  /\ t.pc = "check" => t.files \subseteq {<<"product", t.product>>}
  /\ t.pc = "files" => \A f \in t.files : SentFor(f, t.product)

\* The inductive invariant: the wizard, the shop and the tasks.
FsmFits == state \in State \cup {NoState} /\ data \in Data /\ DataFitsState /\ FilesOfWizard
ShopTypes ==
  /\ there \subseteq born /\ born \subseteq Category /\ in \in [Product -> Category \cup {None}]
  /\ files \in [Product -> SUBSET Document]
  /\ run \in 0..MaxRuns /\ made \in [Product -> 0..Others]
FreeIsNew == \A p \in Product : made[p] = 0 => ~Exists(p)
ShopFits == ShopTypes /\ FreeIsNew /\ NoOrphans /\ FilesWhereSent
TasksFit ==
  /\ task \in [Slot -> Task \cup {Idle}]
  /\ \A s \in Slot : task[s] # Idle => Fitting(task[s])
CatalogueInv == FsmFits /\ ShopFits /\ TasksFit

-----------------------------------------------------------------------------
(* Numbers.                                                                   *)

\* The numbers the database gives out: a set of them that is not empty has a least one,
\* which Min returns.
LEMMA LeastOne ==
  ASSUME NEW S, S \subseteq Nat, S # {}
  PROVE  Min(S) \in S /\ \A y \in S : Min(S) <= y
<1> DEFINE R == {ss \in Nat \X Nat : ss[1] < ss[2]}
<1>1. IsWellFoundedOn(R, Nat)
  BY NatLessThanWellFounded DEF OpToRel
<1>2. \A m, n \in Nat : m < n => <<m, n>> \in R
  OBVIOUS
<1> HIDE DEF R
<1>3. PICK x \in S : \A y \in S : ~ (<<y, x>> \in R)
  BY <1>1, WFMin
<1>4. \A y \in S : x <= y
  <2> SUFFICES ASSUME NEW y \in S
               PROVE  x <= y
    OBVIOUS
  <2>1. x \in Nat /\ y \in Nat
    OBVIOUS
  <2>2. ~ (y < x)
    BY <1>2, <1>3, <2>1
  <2> QED BY <2>1, <2>2
<1> QED BY <1>4 DEF Min

-----------------------------------------------------------------------------
(* The database.                                                              *)

\* A category that is added has a new number.
LEMMA AddCategoryFits ==
  ASSUME ShopFits, AddCategory, UNCHANGED history
  PROVE  ShopFits'
<1> DEFINE new == Min(Category \ born)
<1>1. Category \ born # {} /\ Category \ born \subseteq Nat
  BY CatalogueAssumption DEF AddCategory, ShopFits, ShopTypes
<1>2. new \in Category
  BY <1>1, LeastOne
<1>3. /\ there' = there \cup {new} /\ born' = born \cup {new}
      /\ UNCHANGED <<in, files, run, made>>
  BY DEF AddCategory, history
<1> HIDE DEF new
<1>4. ShopTypes'
  BY <1>2, <1>3 DEF ShopFits, ShopTypes
<1>5. FreeIsNew' /\ NoOrphans' /\ FilesWhereSent'
  BY <1>3 DEF ShopFits, FreeIsNew, NoOrphans, FilesWhereSent, Exists
<1> QED BY <1>4, <1>5 DEF ShopFits

\* Products go with their files.
LEMMA DeleteProductsFit ==
  ASSUME ShopFits, NEW P, DeleteProducts(P), UNCHANGED <<born, history>>,
         there' \subseteq there,
         \A p \in Product : in[p] \in there \ there' => p \in P
  PROVE  ShopFits'
<1>1. /\ \A p \in Product : in'[p] = (IF p \in P THEN None ELSE in[p])
      /\ \A p \in Product : files'[p] = (IF p \in P THEN {} ELSE files[p])
      /\ UNCHANGED <<run, made>>
  BY DEF DeleteProducts, history
<1>2. ShopTypes'
  BY <1>1 DEF ShopFits, ShopTypes, DeleteProducts
<1>3. FreeIsNew' /\ NoOrphans' /\ FilesWhereSent'
  BY <1>1 DEF ShopFits, FreeIsNew, NoOrphans, FilesWhereSent, Exists
<1> QED BY <1>2, <1>3 DEF ShopFits

\* A category goes with its products.
LEMMA DeleteCategoryFits ==
  ASSUME ShopFits, NEW c, DeleteCategory(c), UNCHANGED history
  PROVE  ShopFits'
<1> DEFINE P == {p \in Product : in[p] = c}
<1>1. DeleteProducts(P) /\ there' = there \ {c} /\ UNCHANGED born
  BY Zenon DEF DeleteCategory
<1>2. \A p \in Product : in[p] \in there \ there' => p \in P
  BY <1>1
<1> QED BY <1>1, <1>2, DeleteProductsFit

\* One product.
LEMMA DeleteProductFits ==
  ASSUME ShopFits, NEW p, DeleteProduct(p), UNCHANGED history
  PROVE  ShopFits'
BY DeleteProductsFit DEF DeleteProduct

\* A product that is added has a number no product had before, and a category.
LEMMA AddProductFits ==
  ASSUME ShopFits, NEW c, CanAddProduct(c), FreeIds # {}, NEW r \in 1..Others, AddProduct(c, r)
  PROVE  /\ ShopFits' /\ Min(FreeIds) \in Product /\ made'[Min(FreeIds)] = r
         /\ \A p \in Product : made[p] # 0 => made'[p] = made[p]
<1> DEFINE new == Min(FreeIds)
<1>1. FreeIds \subseteq Nat
  BY CatalogueAssumption DEF FreeIds
<1>2. new \in Product /\ made[new] = 0
  BY <1>1, LeastOne DEF FreeIds
<1>3. /\ in' = [in EXCEPT ![new] = c] /\ made' = [made EXCEPT ![new] = r]
      /\ UNCHANGED <<there, born, files, run>>
  BY DEF AddProduct
<1> HIDE DEF new
<1>4. c \in there /\ c \in Category /\ c # None /\ r # 0
  BY CatalogueAssumption DEF CanAddProduct, ShopFits, ShopTypes
<1>5. /\ \A p \in Product : in'[p] = (IF p = new THEN c ELSE in[p])
      /\ \A p \in Product : made'[p] = (IF p = new THEN r ELSE made[p])
  BY <1>3 DEF ShopFits, ShopTypes
<1>6. ShopTypes'
  <2>1. 1..Others \subseteq 0..Others
    BY CatalogueAssumption DEF Others
  <2>2. in' \in [Product -> Category \cup {None}] /\ made' \in [Product -> 0..Others]
    BY <1>3, <1>4, <2>1 DEF ShopFits, ShopTypes
  <2> QED BY <1>3, <2>2 DEF ShopFits, ShopTypes
<1>7. files[new] = {}
  BY <1>2 DEF ShopFits, FreeIsNew, NoOrphans
<1>8. FreeIsNew'
  BY <1>4, <1>5 DEF ShopFits, FreeIsNew, Exists
<1>9. NoOrphans'
  BY <1>3, <1>4, <1>5 DEF ShopFits, NoOrphans, Exists
<1>10. FilesWhereSent'
  BY <1>3, <1>5, <1>7 DEF ShopFits, FilesWhereSent
<1> QED BY <1>2, <1>5, <1>6, <1>8, <1>9, <1>10 DEF ShopFits, new

\* Files that were sent for a product are added to it.
LEMMA AddFilesFit ==
  ASSUME ShopFits, NEW p \in Product, CanAddFiles(p), NEW F \in SUBSET Document,
         \A f \in F : SentFor(f, p), AddFiles(p, F), UNCHANGED history
  PROVE  ShopFits'
<1>1. /\ files' \in [Product -> SUBSET Document]
      /\ \A q \in Product : files'[q] = (IF q = p THEN files[p] \cup F ELSE files[q])
      /\ UNCHANGED <<there, born, in, run, made>>
  BY DEF AddFiles, ShopFits, ShopTypes, history
<1>2. ShopTypes' /\ FreeIsNew'
  BY <1>1 DEF ShopFits, ShopTypes, FreeIsNew, Exists
<1>3. NoOrphans'
  BY <1>1 DEF ShopFits, NoOrphans, Exists, CanAddFiles
<1>4. FilesWhereSent'
  BY <1>1 DEF ShopFits, FilesWhereSent, SentFor
<1> QED BY <1>2, <1>3, <1>4 DEF ShopFits

\* A file is deleted from wherever it is.
LEMMA DeleteFileFits ==
  ASSUME ShopFits, NEW f, DeleteFile(f), UNCHANGED history
  PROVE  ShopFits'
<1>1. /\ files' \in [Product -> SUBSET Document]
      /\ \A p \in Product : files'[p] \subseteq files[p]
      /\ UNCHANGED <<there, born, in, run, made>>
  BY DEF DeleteFile, ShopFits, ShopTypes, history
<1>2. ShopTypes' /\ FreeIsNew' /\ NoOrphans'
  BY <1>1 DEF ShopFits, ShopTypes, FreeIsNew, NoOrphans, Exists
<1>3. FilesWhereSent'
  BY <1>1 DEF ShopFits, FilesWhereSent
<1> QED BY <1>2, <1>3 DEF ShopFits
-----------------------------------------------------------------------------
(* The wizards.                                                               *)

\* The answers a wizard has when it is in state st, all of the run r.
AnswersGiven(st, a, r) ==
  /\ st \in {"name", "price", "description", "preview_file_id", "new_files"}
       => a["category_id"] = r
  /\ st \in {"price", "description", "preview_file_id", "new_files"} => a["name"] = r
  /\ st \in {"description", "preview_file_id", "new_files"} => a["price"] = r
  /\ st \in {"preview_file_id", "new_files"} => a["description"] = r
  /\ st = "new_files" => a["preview_file_id"] = r

\* All that a wizard in state st with data d relies on in run r.
WizardFits(st, d, r) ==
  /\ st \in State \cup {NoState} /\ d \in Data
  /\ AnswersGiven(st, d.answer, r)
  /\ st \in {"name", "price", "description", "preview_file_id", "new_files"} => d.category # None
  /\ st = "files" => d.product # None /\ d.files \subseteq {<<"product", d.product>>}
  /\ st \in Answer \cup {"new_files"} => r \in Run
  /\ st = "new_files" => d.files \subseteq {<<"run", r>>}

\* The questions by their names.
LEMMA Questions ==
  /\ Question[1] = "category_id" /\ Question[2] = "name" /\ Question[3] = "price"
  /\ Question[4] = "description" /\ Question[5] = "preview_file_id"
  /\ Answer = {"category_id", "name", "price", "description", "preview_file_id"}
<1>1. /\ Question[1] = "category_id" /\ Question[2] = "name" /\ Question[3] = "price"
      /\ Question[4] = "description" /\ Question[5] = "preview_file_id"
  BY DEF Question
<1>2. 1..5 = {1, 2, 3, 4, 5}
  OBVIOUS
<1> QED BY <1>1, <1>2 DEF Answer

\* To have all the answers before a question is to have these.
LEMMA InOrder ==
  ASSUME NEW st, NEW a, NEW r
  PROVE  (\A i \in 1..5, j \in 1..5 :
            (st = Question[i] /\ j < i) \/ st = "new_files" => a[Question[j]] = r)
         <=> AnswersGiven(st, a, r)
<1>1. 1..5 = {1, 2, 3, 4, 5}
  OBVIOUS
<1>2. ASSUME \A i \in 1..5, j \in 1..5 :
               (st = Question[i] /\ j < i) \/ st = "new_files" => a[Question[j]] = r
      PROVE  AnswersGiven(st, a, r)
  BY <1>2, Questions DEF AnswersGiven
<1>3. ASSUME AnswersGiven(st, a, r), NEW i \in 1..5, NEW j \in 1..5,
             (st = Question[i] /\ j < i) \/ st = "new_files"
      PROVE  a[Question[j]] = r
  BY <1>1, <1>3, Questions DEF AnswersGiven
<1> QED BY <1>2, <1>3

\* The wizard's part of the invariant, now and in the next state.
LEMMA FsmIs ==
  /\ FsmFits <=> WizardFits(state, data, run)
  /\ FsmFits' <=> WizardFits(state', data', run')
BY InOrder DEF FsmFits, DataFitsState, FilesOfWizard, WizardFits

\* What a wizard keeps remains a conversation's data.
LEMMA DataTypes ==
  ASSUME NEW d \in Data
  PROVE  /\ \A a \in Answer, r \in 0..MaxRuns :
              LET e == [d EXCEPT !.answer[a] = r]
              IN /\ e \in Data /\ e.category = d.category /\ e.files = d.files
                 /\ \A b \in Answer : e.answer[b] = IF b = a THEN r ELSE d.answer[b]
         /\ \A c \in Category :
              LET e == [d EXCEPT !.category = c]
              IN e \in Data /\ e.category = c /\ e.files = d.files /\ e.answer = d.answer
         /\ \A F \in SUBSET Document :
              LET e == [d EXCEPT !.files = F]
              IN /\ e \in Data /\ e.category = d.category /\ e.files = F /\ e.answer = d.answer
                 /\ e.product = d.product
<1>1. d.answer \in [Answer -> 0..MaxRuns]
  BY DEF Data
<1>2. ASSUME NEW a \in Answer, NEW r \in 0..MaxRuns
      PROVE  LET e == [d EXCEPT !.answer[a] = r]
             IN /\ e \in Data /\ e.category = d.category /\ e.files = d.files
                /\ \A b \in Answer : e.answer[b] = IF b = a THEN r ELSE d.answer[b]
  <2> DEFINE f == [d.answer EXCEPT ![a] = r]
             e == [d EXCEPT !.answer = f]
  <2>1. f \in [Answer -> 0..MaxRuns] /\ \A b \in Answer : f[b] = IF b = a THEN r ELSE d.answer[b]
    BY <1>1
  <2> HIDE DEF f
  <2>2. e \in Data /\ e.category = d.category /\ e.files = d.files /\ e.answer = f
    BY <2>1 DEF Data
  <2> QED BY <2>1, <2>2 DEF f
<1>3. \A c \in Category :
        LET e == [d EXCEPT !.category = c]
        IN e \in Data /\ e.category = c /\ e.files = d.files /\ e.answer = d.answer
  BY DEF Data
<1>4. \A F \in SUBSET Document :
        LET e == [d EXCEPT !.files = F]
        IN /\ e \in Data /\ e.category = d.category /\ e.files = F /\ e.answer = d.answer
           /\ e.product = d.product
  BY DEF Data
<1> QED BY <1>2, <1>3, <1>4

\* A wizard that is left fits.
LEMMA ClearFits ==
  ASSUME FsmFits, Clear
  PROVE  WizardFits(state', data', run')
<1>1. NoData \in Data
  <2>1. 0 \in 0..MaxRuns
    BY CatalogueAssumption
  <2> QED BY <2>1 DEF NoData, Data
<1>2. NoState \notin Answer \cup {"new_files", "files"}
  BY CatalogueAssumption DEF State
<1> QED BY <1>1, <1>2, Questions DEF Clear, WizardFits, AnswersGiven
\* What the shop keeps when it does not change.
LEMMA ShopStays ==
  ASSUME ShopFits, UNCHANGED <<shop, history>>
  PROVE  ShopFits'
BY DEF ShopFits, ShopTypes, FreeIsNew, NoOrphans, FilesWhereSent, Exists, shop, history

\* The same for the tasks.
LEMMA TasksStay ==
  ASSUME TasksFit, UNCHANGED <<task, history>>
  PROVE  TasksFit'
BY DEF TasksFit, Fitting, SentFor, history

\* An answer leads to the next question, with the run that is going on.
LEMMA AnswerFits ==
  ASSUME FsmFits, ShopTypes, NEW a \in Answer, state = a
  PROVE  /\ Answered(a) \in Data /\ run \in Run
         /\ Answered(a).category = data.category /\ Answered(a).files = data.files
         /\ \A b \in Answer : Answered(a).answer[b] = IF b = a THEN run ELSE data.answer[b]
         /\ AnswersGiven(state, data.answer, run)
         /\ state # "category_id" => data.category # None
<1>1. data \in Data /\ WizardFits(state, data, run) /\ run \in 0..MaxRuns
  BY FsmIs DEF FsmFits, ShopTypes
<1>2. /\ [data EXCEPT !.answer[a] = run] \in Data
      /\ [data EXCEPT !.answer[a] = run].category = data.category
      /\ [data EXCEPT !.answer[a] = run].files = data.files
      /\ \A b \in Answer :
           [data EXCEPT !.answer[a] = run].answer[b] = IF b = a THEN run ELSE data.answer[b]
  BY <1>1, DataTypes
<1>3. a \in {"category_id", "name", "price", "description", "preview_file_id"}
  BY Questions
<1> QED BY <1>1, <1>2, <1>3 DEF WizardFits, Answered

\* The wizards' steps.
LEMMA WizardKeeps ==
  ASSUME CatalogueInv, Wizard
  PROVE  CatalogueInv'
<1> USE DEF Ask, Put
<1>1. /\ FsmFits /\ ShopFits /\ TasksFit /\ ShopTypes /\ data \in Data
      /\ WizardFits(state, data, run)
  BY FsmIs DEF CatalogueInv, ShopFits, FsmFits
<1>2. UNCHANGED <<shop, task, history>>
  BY DEF Wizard, OpenPanel, CommandOutside, CancelFiles, AskCategoryName, PickCategory, TypeName,
         TypePrice, TypeDescription, SendPreview, SkipPreview, SendNewFile, SendFile
<1>3. ShopFits' /\ TasksFit' /\ run' = run
  BY <1>1, <1>2, ShopStays, TasksStay DEF history
<1>4. WizardFits(state', data', run)
  <2>1. CASE OpenPanel \/ CommandOutside \/ CancelFiles
    BY <1>1, <1>3, <2>1, ClearFits DEF OpenPanel, CommandOutside, CancelFiles
  <2>2. CASE AskCategoryName
    BY <1>1, <2>2, Questions DEF AskCategoryName, WizardFits, AnswersGiven, State
  <2>3. ASSUME NEW c \in Category, PickCategory(c)
        PROVE  WizardFits(state', data', run)
    <3> DEFINE d == Answered("category_id")
    <3>1. /\ d \in Data /\ run \in Run
          /\ d.answer["category_id"] = run
      BY <1>1, <2>3, AnswerFits, Questions DEF PickCategory
    <3> HIDE DEF d
    <3>2. /\ data' \in Data /\ data'.category = c /\ data'.answer = d.answer /\ state' = "name"
      BY <2>3, <3>1, DataTypes DEF PickCategory, d
    <3>3. c # None
      BY CatalogueAssumption
    <3> QED BY <3>1, <3>2, <3>3, Questions DEF WizardFits, AnswersGiven, State
  <2>4. CASE TypeName
    <3>1. /\ data' \in Data /\ run \in Run /\ data'.category = data.category
          /\ data.category # None /\ state' = "price"
          /\ \A b \in Answer : data'.answer[b] = IF b = "name" THEN run ELSE data.answer[b]
          /\ AnswersGiven("name", data.answer, run)
      BY <1>1, <2>4, AnswerFits, Questions DEF TypeName
    <3> QED BY <3>1, Questions DEF WizardFits, AnswersGiven, State
  <2>5. CASE TypePrice
    <3>1. /\ data' \in Data /\ run \in Run /\ data'.category = data.category
          /\ data.category # None /\ state' = "description"
          /\ \A b \in Answer : data'.answer[b] = IF b = "price" THEN run ELSE data.answer[b]
          /\ AnswersGiven("price", data.answer, run)
      BY <1>1, <2>5, AnswerFits, Questions DEF TypePrice
    <3> QED BY <3>1, Questions DEF WizardFits, AnswersGiven, State
  <2>6. CASE TypeDescription
    <3>1. /\ data' \in Data /\ run \in Run /\ data'.category = data.category
          /\ data.category # None /\ state' = "preview_file_id"
          /\ \A b \in Answer : data'.answer[b] = IF b = "description" THEN run ELSE data.answer[b]
          /\ AnswersGiven("description", data.answer, run)
      BY <1>1, <2>6, AnswerFits, Questions DEF TypeDescription
    <3> QED BY <3>1, Questions DEF WizardFits, AnswersGiven, State
  <2>7. CASE SendPreview \/ SkipPreview
    <3> DEFINE d == Answered("preview_file_id")
    <3>1. /\ d \in Data /\ run \in Run /\ d.category = data.category /\ data.category # None
          /\ \A b \in Answer : d.answer[b] = IF b = "preview_file_id" THEN run ELSE data.answer[b]
          /\ AnswersGiven("preview_file_id", data.answer, run)
      BY <1>1, <2>7, AnswerFits, Questions DEF SendPreview, SkipPreview
    <3> HIDE DEF d
    <3>2. data' = [d EXCEPT !.files = {}] /\ state' = "new_files"
      BY <2>7 DEF SendPreview, SkipPreview, d
    <3>3. /\ data' \in Data /\ data'.category = data.category /\ data'.answer = d.answer
          /\ data'.files = {}
      BY <3>1, <3>2, DataTypes
    <3> QED BY <3>1, <3>2, <3>3, Questions DEF WizardFits, AnswersGiven, State
  <2>8. CASE SendNewFile
    <3>1. state = "new_files" /\ state' = state /\ data' = [data EXCEPT !.files = data.files \cup {<<"run", run>>}]
      BY <2>8 DEF SendNewFile, Sends
    <3>2. run \in Run /\ data.files \subseteq {<<"run", run>>} /\ data.files \subseteq Document
      BY <1>1, <3>1 DEF WizardFits, Data
    <3>3. data.files \cup {<<"run", run>>} \in SUBSET Document
      BY <3>2 DEF Document
    <3>4. /\ data' \in Data /\ data'.category = data.category /\ data'.answer = data.answer
          /\ data'.files = data.files \cup {<<"run", run>>}
      BY <1>1, <3>1, <3>3, DataTypes
    <3> QED BY <1>1, <3>1, <3>2, <3>4 DEF WizardFits, AnswersGiven
  <2>9. CASE SendFile
    <3> DEFINE f == <<"product", data.product>>
    <3>1. state = "files" /\ state' = state /\ data' = [data EXCEPT !.files = data.files \cup {f}]
      BY <2>9 DEF SendFile, Sends
    <3>2. data.files \subseteq {f} /\ data.files \subseteq Document /\ data.product \in Product
      BY <1>1, <3>1 DEF WizardFits, Data
    <3>3. data.files \cup {f} \in SUBSET Document
      BY <3>2 DEF Document
    <3> HIDE DEF f
    <3>4. /\ data' \in Data /\ data'.category = data.category /\ data'.answer = data.answer
          /\ data'.files = data.files \cup {f} /\ data'.product = data.product
      BY <1>1, <3>1, <3>3, DataTypes
    <3> QED BY <1>1, <3>1, <3>2, <3>4, Questions DEF WizardFits, AnswersGiven, f
  <2> QED BY <2>1, <2>2, <2>3, <2>4, <2>5, <2>6, <2>7, <2>8, <2>9 DEF Wizard
<1> QED BY <1>3, <1>4, FsmIs DEF CatalogueInv

-----------------------------------------------------------------------------
(* The tasks.                                                                 *)

\* A task that is at a point has what that point needs.
LEMMA TaskShapes ==
  ASSUME TasksFit, NEW s \in Slot, task[s] # Idle
  PROVE  /\ task[s] \in Task /\ Fitting(task[s])
         /\ task[s].pc = "product" => /\ task[s].run \in Run /\ task[s].files \subseteq Document
                                      /\ task[s].category \in Category
         /\ task[s].pc \in {"check", "files"} => task[s].product \in Product
                                                 /\ task[s].files \subseteq Document
         /\ task[s].pc \in {"pick", "look", "upload"} => task[s].product \in Product
         /\ task[s].pc = "remove" => task[s].file \in Document
<1>1. task[s] \in Task /\ Fitting(task[s])
  BY DEF TasksFit
<1> DEFINE t == task[s]
<1> HIDE DEF t
<1>2. t \in Task
  BY <1>1 DEF t
<1>3. /\ t.pc = "product" => t.run \in Run /\ t.files \subseteq Document /\ t.category \in Category
      /\ t.pc \in {"check", "files"} => t.product \in Product /\ t.files \subseteq Document
      /\ t.pc \in {"pick", "look", "upload"} => t.product \in Product
      /\ t.pc = "remove" => t.file \in Document
  BY <1>2 DEF Task
<1> QED BY <1>1, <1>3 DEF t

\* What a task is about to store still belongs together when other products are added:
\* only a product that had no file so far gets a run.
LEMMA FittingStays ==
  ASSUME TasksFit, NEW s \in Slot, task[s] # Idle,
         \A p \in Product : made[p] # 0 => made'[p] = made[p]
  PROVE  /\ task[s].pc = "product" => task[s].files \subseteq {<<"run", task[s].run>>}
         /\ task[s].pc = "check" => task[s].files \subseteq {<<"product", task[s].product>>}
         /\ task[s].pc = "files" => \A f \in task[s].files :
              \/ f = <<"product", task[s].product>>
              \/ f = <<"run", made'[task[s].product]>> /\ made'[task[s].product] \in Run
<1> DEFINE t == task[s]
<1>1. Fitting(t) /\ (t.pc = "files" => t.product \in Product)
  BY TaskShapes
<1> HIDE DEF t
<1>2. \A n \in Run : n # 0
  BY DEF Run
<1>3. t.pc = "files" /\ made[t.product] \in Run => made'[t.product] = made[t.product]
  BY <1>1, <1>2
<1> QED BY <1>1, <1>3 DEF Fitting, SentFor, t

\* A handler turns to a task that fits, or is over; the others go on.
LEMMA GoFits ==
  ASSUME TasksFit, NEW s \in Slot, NEW t \in Task \cup {Idle}, t # Idle => Fitting(t)', Go(s, t),
         \A p \in Product : made[p] # 0 => made'[p] = made[p]
  PROVE  TasksFit'
<1>1. /\ task' \in [Slot -> Task \cup {Idle}] /\ task'[s] = t
      /\ \A r \in Slot : r # s => task'[r] = task[r]
  BY DEF TasksFit, Go
<1>2. ASSUME NEW r \in Slot, task'[r] # Idle
      PROVE  Fitting(task[r])' 
  <2>1. CASE r = s
    BY <1>1, <1>2, <2>1 DEF Fitting, SentFor
  <2>2. CASE r # s
    BY <1>1, <1>2, <2>2, FittingStays DEF Fitting, SentFor
  <2> QED BY <2>1, <2>2
<1> QED BY <1>1, <1>2 DEF TasksFit
\* A handler that begins, or goes on, without a change to anything else.
LEMMA OnlyTask ==
  ASSUME CatalogueInv, NEW s \in Slot, NEW t \in Task \cup {Idle}, t # Idle => Fitting(t),
         Go(s, t), UNCHANGED <<fsm, shop, history>>
  PROVE  CatalogueInv'
<1>1. ShopFits' /\ UNCHANGED <<made, run, state, data>>
  BY ShopStays DEF CatalogueInv, history, fsm
<1>2. t # Idle => Fitting(t)'
  BY <1>1 DEF Fitting, SentFor
<1>3. TasksFit'
  BY <1>1, <1>2, GoFits DEF CatalogueInv
<1>4. FsmFits'
  BY <1>1, FsmIs DEF CatalogueInv
<1> QED BY <1>1, <1>3, <1>4 DEF CatalogueInv

\* Tasks that store nothing fit.
LEMMA PlainTasks ==
  /\ \A p \in {"categories", "category", "clear"} :
       [pc |-> p] \in Task /\ Fitting([pc |-> p])
  /\ \A p \in Product, g \in {"page", "files", "photo"} :
       LET t == [pc |-> "pick", product |-> p, goal |-> g] IN t \in Task /\ Fitting(t)
  /\ \A x \in {"look", "upload"}, p \in Product :
       LET t == [pc |-> x, product |-> p] IN t \in Task /\ Fitting(t)
  /\ \A f \in Document : LET t == [pc |-> "remove", file |-> f] IN t \in Task /\ Fitting(t)
  /\ \A c \in Category : LET t == [pc |-> "drop", category |-> c] IN t \in Task /\ Fitting(t)
BY DEF Task, Fitting

\* Updates and requests that begin a handler.
LEMMA ButtonsKeep ==
  ASSUME CatalogueInv, NEW s \in Slot, Buttons(s)
  PROVE  CatalogueInv'
<1>1. ASSUME NEW t \in Task, Fitting(t), BeginOnly(s, t)
      PROVE  CatalogueInv'
  BY <1>1, OnlyTask DEF BeginOnly, Begin
<1>2. CASE TypeCategoryName(s) \/ NewProduct(s)
  BY <1>1, <1>2, PlainTasks DEF TypeCategoryName, NewProduct
<1>3. WizardFits(state, data, run) /\ data \in Data
  BY FsmIs DEF CatalogueInv, FsmFits
<1>4. CASE NewProductDone(s)
  <2> DEFINE t == [pc |-> "product", category |-> data.category,
                   run |-> data.answer["name"], files |-> data.files]
  <2>1. /\ data.answer["name"] = run /\ run \in Run /\ data.files \subseteq {<<"run", run>>}
        /\ data.category \in Category /\ data.files \subseteq Document
    BY <1>3, <1>4 DEF NewProductDone, WizardFits, AnswersGiven, Data
  <2>2. t \in Task /\ Fitting(t)
    BY <2>1 DEF Task, Fitting
  <2> QED BY <1>1, <1>4, <2>2 DEF NewProductDone
<1>5. CASE FilesDone(s)
  <2> DEFINE t == [pc |-> "check", product |-> data.product, files |-> data.files]
  <2>1. /\ data.product \in Product /\ data.files \subseteq {<<"product", data.product>>}
        /\ data.files \subseteq Document
    BY <1>3, <1>5 DEF FilesDone, WizardFits, Data
  <2>2. t \in Task /\ Fitting(t)
    BY <2>1 DEF Task, Fitting
  <2> QED BY <1>1, <1>5, <2>2 DEF FilesDone
<1>6. ASSUME NEW p \in Product,
             \/ FilesPage(s, p) \/ AddFilesButton(s, p) \/ PreviewButton(s, p)
             \/ PanelUpload(s, p) \/ SendPhoto(s, p)
             \/ \E f \in Document : FileDelete(s, p, f) \/ BaleDeleteFile(s, p, f)
      PROVE  CatalogueInv'
  BY <1>1, <1>6, PlainTasks DEF FilesPage, AddFilesButton, PreviewButton, PanelUpload, SendPhoto,
     FileDelete, BaleDeleteFile
<1>7. ASSUME NEW c \in Category, BaleDeleteCategory(s, c)
      PROVE  CatalogueInv'
  BY <1>1, <1>7, PlainTasks DEF BaleDeleteCategory
<1> QED BY <1>2, <1>4, <1>5, <1>6, <1>7 DEF Buttons

\* A change of the shop leaves the wizard as it was, and the tasks too.
LEMMA OnlyShop ==
  ASSUME CatalogueInv, ShopFits', UNCHANGED <<fsm, run, task>>,
         \A p \in Product : made[p] # 0 => made'[p] = made[p]
  PROVE  CatalogueInv'
<1>1. TasksFit'
  <2>1. ASSUME NEW r \in Slot, task[r] # Idle
        PROVE  Fitting(task[r])'
    BY <2>1, FittingStays DEF CatalogueInv, Fitting, SentFor
  <2> QED BY <2>1 DEF CatalogueInv, TasksFit
<1>2. FsmFits'
  BY FsmIs DEF CatalogueInv, fsm
<1> QED BY <1>1, <1>2 DEF CatalogueInv

\* Requests that are one call of the database.
LEMMA AtOnceKeeps ==
  ASSUME CatalogueInv, AtOnce
  PROVE  CatalogueInv'
<1>1. ShopFits
  BY DEF CatalogueInv
<1>2. CASE PanelAddCategory \/ BaleAddCategory
  BY <1>1, <1>2, AddCategoryFits, OnlyShop DEF PanelAddCategory, BaleAddCategory, Elsewhere, history
<1>3. ASSUME NEW c \in Category, CategoryDelete(c) \/ PanelDeleteCategory(c)
      PROVE  CatalogueInv'
  BY <1>1, <1>3, DeleteCategoryFits, OnlyShop DEF CategoryDelete, PanelDeleteCategory, Elsewhere,
     history
<1>4. ASSUME NEW c \in Category, PanelAddProduct(c) \/ BaleAddProduct(c)
      PROVE  CatalogueInv'
  <2>1. /\ CanAddProduct(c) /\ FreeIds # {} /\ AddProduct(c, Others) /\ UNCHANGED <<fsm, task>>
    BY <1>4 DEF PanelAddProduct, BaleAddProduct, Elsewhere
  <2>2. Others \in 1..Others
    BY CatalogueAssumption DEF Others
  <2>3. ShopFits' /\ \A p \in Product : made[p] # 0 => made'[p] = made[p]
    BY <1>1, <2>1, <2>2, AddProductFits
  <2> QED BY <2>1, <2>3, OnlyShop DEF AddProduct
<1>5. ASSUME NEW p \in Product, ProductDelete(p) \/ PanelDeleteProduct(p) \/ BaleDeleteProduct(p)
      PROVE  CatalogueInv'
  BY <1>1, <1>5, DeleteProductFits, OnlyShop DEF ProductDelete, PanelDeleteProduct,
     BaleDeleteProduct, Elsewhere, history
<1>6. ASSUME NEW f \in Document, PanelDeleteFile(f)
      PROVE  CatalogueInv'
  BY <1>1, <1>6, DeleteFileFits, OnlyShop DEF PanelDeleteFile, Elsewhere, history
<1> QED BY <1>2, <1>3, <1>4, <1>5, <1>6 DEF AtOnce

\* The steps of a handler that change the conversation.
LEMMA ConversationTasksKeep ==
  ASSUME CatalogueInv, NEW s \in Slot,
         \/ LateClear(s) \/ Fail(s) \/ AskCategory(s) \/ Picked(s) \/ CheckProduct(s)
         \/ LookForPreview(s)
  PROVE  CatalogueInv'
<1> USE DEF Ask, Put, End
<1>1. FsmFits /\ ShopFits /\ TasksFit /\ WizardFits(state, data, run) /\ data \in Data
  BY FsmIs DEF CatalogueInv, FsmFits
<1>2. ASSUME Go(s, Idle), UNCHANGED <<shop, history>>, WizardFits(state', data', run)
      PROVE  CatalogueInv'
  <2>1. UNCHANGED <<made, run>>
    BY <1>2 DEF history
  <2>2. ShopFits' /\ TasksFit'
    BY <1>1, <1>2, <2>1, ShopStays, GoFits
  <2> QED BY <1>2, <2>1, <2>2, FsmIs DEF CatalogueInv
<1>3. CASE LateClear(s)
  BY <1>1, <1>2, <1>3, ClearFits DEF LateClear, history
<1>4. CASE Fail(s)
  BY <1>4, OnlyTask DEF Fail
<1>5. CASE AskCategory(s)
  <2>1. CASE UNCHANGED <<fsm, history>>
    BY <1>5, <2>1, OnlyTask DEF AskCategory
  <2>2. CASE run < MaxRuns /\ state' = "category_id" /\ run' = run + 1 /\ UNCHANGED <<data, made>>
    <3>1. /\ Go(s, Idle) /\ UNCHANGED shop
      BY <1>5 DEF AskCategory
    <3>2. TasksFit'
      BY <1>1, <2>2, <3>1, GoFits
    <3>3. run \in 0..MaxRuns /\ run' \in Run /\ run' \in 0..MaxRuns
      BY <1>1, <2>2, CatalogueAssumption DEF ShopFits, ShopTypes, Run
    <3>4. ShopFits'
      BY <1>1, <2>2, <3>1, <3>3 DEF ShopFits, ShopTypes, FreeIsNew, NoOrphans, FilesWhereSent,
         Exists, shop
    <3>5. WizardFits(state', data', run')
      BY <1>1, <2>2, <3>3, Questions DEF WizardFits, AnswersGiven, State
    <3> QED BY <3>2, <3>4, <3>5, FsmIs DEF CatalogueInv
  <2> QED BY <1>5, <2>1, <2>2 DEF AskCategory
<1>6. CASE Picked(s)
  <2> DEFINE p == task[s].product
  <2>1. p \in Product /\ Go(s, Idle) /\ UNCHANGED <<shop, history>>
    BY <1>1, <1>6, TaskShapes DEF Picked, At
  <2>2. \/ UNCHANGED fsm
        \/ Clear
        \/ data' = [data EXCEPT !.product = p, !.files = {}] /\ state' = "files"
        \/ state' = "photo" /\ UNCHANGED data
    BY <1>6, Zenon DEF Picked
  <2> HIDE DEF p
  <2>3. CASE UNCHANGED fsm
    BY <2>1, <2>3, OnlyTask
  <2>4. CASE Clear
    BY <1>1, <1>2, <2>1, <2>4, ClearFits DEF history
  <2>5. CASE data' = [data EXCEPT !.product = p, !.files = {}] /\ state' = "files"
    <3>1. data' = [answer |-> data.answer, category |-> data.category, files |-> {}, product |-> p]
      BY <1>1, <2>5 DEF Data
    <3>2. data' \in Data /\ data'.product = p /\ p # None /\ data'.files = {}
      BY <1>1, <2>1, <3>1, CatalogueAssumption DEF Data
    <3>3. WizardFits(state', data', run)
      BY <2>5, <3>2, Questions DEF WizardFits, AnswersGiven, State
    <3> QED BY <1>2, <2>1, <3>3
  <2>6. CASE state' = "photo" /\ UNCHANGED data
    <3>1. WizardFits(state', data', run)
      BY <1>1, <2>6, Questions DEF WizardFits, AnswersGiven, State
    <3> QED BY <1>2, <2>1, <3>1
  <2> QED BY <2>2, <2>3, <2>4, <2>5, <2>6
<1>7. CASE CheckProduct(s)
  <2>1. UNCHANGED <<shop, history>> /\ task[s] # Idle /\ task[s].pc = "check"
    BY <1>7 DEF CheckProduct, At
  <2>2. CASE Clear /\ Go(s, Idle)
    BY <1>1, <1>2, <2>1, <2>2, ClearFits DEF history
  <2>3. CASE Go(s, [task[s] EXCEPT !.pc = "files"]) /\ UNCHANGED fsm
    <3> DEFINE t == task[s]
    <3>1. t \in Task /\ t.pc = "check" /\ t.files \subseteq {<<"product", t.product>>}
      BY <1>1, <2>1, TaskShapes DEF Fitting
    <3> HIDE DEF t
    <3> DEFINE Both == [pc : {"check", "files"}, product : Product, files : SUBSET Document]
               e == [t EXCEPT !.pc = "files"]
    <3>2. t \in Both
      BY <3>1 DEF Task
    <3>3. e \in Both /\ e.pc = "files" /\ e.files = t.files /\ e.product = t.product
      BY <3>2
    <3> HIDE DEF e
    <3>4. e \in Task /\ Fitting(e)
      BY <3>1, <3>3 DEF Task, Fitting, SentFor
    <3> QED BY <2>1, <2>3, <3>4, OnlyTask DEF t, e
  <2> QED BY <1>7, <2>2, <2>3 DEF CheckProduct
<1>8. CASE LookForPreview(s)
  <2>1. UNCHANGED <<shop, history>>
    BY <1>8 DEF LookForPreview
  <2>2. CASE Clear /\ Go(s, Idle)
    BY <1>1, <1>2, <2>1, <2>2, ClearFits DEF history
  <2>3. CASE Go(s, [pc |-> "clear"]) /\ UNCHANGED fsm
    BY <2>1, <2>3, PlainTasks, OnlyTask
  <2> QED BY <1>8, <2>2, <2>3 DEF LookForPreview
<1> QED BY <1>3, <1>4, <1>5, <1>6, <1>7, <1>8
\* The steps of a handler that change the shop.
LEMMA ShopTasksKeep ==
  ASSUME CatalogueInv, NEW s \in Slot,
         \/ StoreCategory(s) \/ StoreProduct(s) \/ StoreFiles(s) \/ RemoveFile(s)
         \/ KeepUpload(s) \/ DropCategory(s)
  PROVE  CatalogueInv'
<1> USE DEF End
<1>1. FsmFits /\ ShopFits /\ TasksFit
  BY DEF CatalogueInv
<1>2. ASSUME NEW t \in Task \cup {Idle}, t # Idle => Fitting(t)', Go(s, t),
             \A p \in Product : made[p] # 0 => made'[p] = made[p],
             ShopFits', UNCHANGED <<fsm, run>>
      PROVE  CatalogueInv'
  BY <1>1, <1>2, GoFits, FsmIs DEF CatalogueInv, fsm
<1>3. CASE StoreCategory(s)
  <2>1. AddCategory /\ Go(s, [pc |-> "clear"]) /\ UNCHANGED <<fsm, history>>
    BY <1>3 DEF StoreCategory
  <2>2. [pc |-> "clear"] \in Task /\ Fitting([pc |-> "clear"])'
    BY PlainTasks DEF Fitting
  <2> QED BY <1>1, <1>2, <2>1, <2>2, AddCategoryFits DEF history
<1>4. CASE StoreProduct(s)
  <2> DEFINE t == task[s]
             new == Min(FreeIds)
             e == [pc |-> "files", product |-> new, files |-> t.files]
  <2>1. /\ CanAddProduct(t.category) /\ FreeIds # {} /\ AddProduct(t.category, t.run)
        /\ Go(s, e) /\ UNCHANGED fsm
    BY <1>4, Zenon DEF StoreProduct
  <2>2. /\ t.run \in Run /\ t.files \subseteq Document /\ t.files \subseteq {<<"run", t.run>>}
    BY <1>1, <1>4, TaskShapes DEF StoreProduct, At, Fitting
  <2> HIDE DEF t
  <2>3. t.run \in 1..Others
    BY <2>2, CatalogueAssumption DEF Run, Others
  <2>4. /\ ShopFits' /\ new \in Product /\ made'[new] = t.run
        /\ \A p \in Product : made[p] # 0 => made'[p] = made[p]
    BY <1>1, <2>1, <2>3, AddProductFits
  <2> HIDE DEF new
  <2>5. e \in Task
    BY <2>2, <2>4 DEF Task
  <2>6. /\ e.pc = "files" /\ e.product = new
        /\ \A f \in e.files : f = <<"run", made'[new]>> /\ made'[new] \in Run
    BY <2>2, <2>4
  <2> HIDE DEF e
  <2>7. TasksFit'
    <3>1. /\ task' \in [Slot -> Task \cup {Idle}] /\ task'[s] = e
          /\ \A r \in Slot : r # s => task'[r] = task[r]
      BY <1>1, <2>1, <2>5 DEF TasksFit, Go
    <3>2. ASSUME NEW r \in Slot, task'[r] # Idle
          PROVE  Fitting(task[r])'
      <4>1. CASE r = s
        BY <2>6, <3>1, <4>1 DEF Fitting, SentFor
      <4>2. CASE r # s
        BY <1>1, <2>4, <3>1, <3>2, <4>2, FittingStays DEF Fitting, SentFor
      <4> QED BY <4>1, <4>2
    <3> QED BY <3>1, <3>2 DEF TasksFit
  <2>8. UNCHANGED run
    BY <2>1 DEF AddProduct
  <2> QED BY <1>1, <2>1, <2>4, <2>7, <2>8, FsmIs DEF CatalogueInv, fsm
<1>5. CASE StoreFiles(s)
  <2> DEFINE t == task[s]
  <2>1. /\ CanAddFiles(t.product) /\ AddFiles(t.product, t.files) /\ Go(s, [pc |-> "clear"])
        /\ UNCHANGED <<fsm, history>>
    BY <1>5, Zenon DEF StoreFiles
  <2>2. /\ t.product \in Product /\ t.files \in SUBSET Document
        /\ \A f \in t.files : SentFor(f, t.product)
    BY <1>1, <1>5, TaskShapes DEF StoreFiles, At, Fitting
  <2>3. [pc |-> "clear"] \in Task /\ Fitting([pc |-> "clear"])'
    BY PlainTasks DEF Fitting
  <2> QED BY <1>1, <1>2, <2>1, <2>2, <2>3, AddFilesFit DEF history
<1>6. CASE RemoveFile(s)
  <2>1. DeleteFile(task[s].file) /\ Go(s, Idle) /\ UNCHANGED <<fsm, history>>
    BY <1>6 DEF RemoveFile
  <2> QED BY <1>1, <1>2, <2>1, DeleteFileFits DEF history
<1>7. CASE KeepUpload(s)
  <2> DEFINE p == task[s].product
  <2>1. /\ CanAddFiles(p) /\ AddFiles(p, {<<"product", p>>}) /\ Go(s, Idle)
        /\ UNCHANGED <<fsm, history>>
    BY <1>7, Zenon DEF KeepUpload
  <2>2. p \in Product
    BY <1>1, <1>7, TaskShapes DEF KeepUpload, At
  <2> HIDE DEF p
  <2>3. {<<"product", p>>} \in SUBSET Document /\ \A f \in {<<"product", p>>} : SentFor(f, p)
    BY <2>2 DEF Document, SentFor
  <2> QED BY <1>1, <1>2, <2>1, <2>2, <2>3, AddFilesFit DEF history
<1>8. CASE DropCategory(s)
  <2>1. DeleteCategory(task[s].category) /\ Go(s, Idle) /\ UNCHANGED <<fsm, history>>
    BY <1>8 DEF DropCategory
  <2> QED BY <1>1, <1>2, <2>1, DeleteCategoryFits DEF history
<1> QED BY <1>3, <1>4, <1>5, <1>6, <1>7, <1>8

-----------------------------------------------------------------------------
(* The theorems.                                                              *)

\* The invariant holds in every state.
LEMMA InvariantHolds == Spec => []CatalogueInv
<1>1. ASSUME Init
      PROVE  CatalogueInv
  <2>1. NoData \in Data /\ NoState \notin Answer \cup {"new_files", "files"}
    <3>1. 0 \in 0..MaxRuns
      BY CatalogueAssumption
    <3> QED BY <3>1, CatalogueAssumption DEF NoData, Data, State
  <2>2. FsmFits
    BY <1>1, <2>1, Questions, FsmIs DEF Init, WizardFits, AnswersGiven
  <2>3. ShopFits
    <3>1. 0 \in 0..MaxRuns /\ 0 \in 0..Others
      BY CatalogueAssumption DEF Others
    <3> QED BY <1>1, <3>1 DEF Init, ShopFits, ShopTypes, FreeIsNew, NoOrphans, FilesWhereSent,
               Exists
  <2>4. TasksFit
    BY <1>1 DEF Init, TasksFit
  <2> QED BY <2>2, <2>3, <2>4 DEF CatalogueInv
<1>2. ASSUME CatalogueInv, [Next]_vars
      PROVE  CatalogueInv'
  <2>1. CASE UNCHANGED vars
    <3>1. UNCHANGED <<fsm, shop, task, history>>
      BY <2>1 DEF vars
    <3> QED BY <1>2, <3>1, ShopStays, TasksStay, FsmIs DEF CatalogueInv, fsm, history
  <2>2. CASE Next
    <3>1. ASSUME NEW s \in Slot, Goes(s)
          PROVE  CatalogueInv'
      BY <1>2, <3>1, ConversationTasksKeep, ShopTasksKeep DEF Goes
    <3> QED BY <1>2, <2>2, <3>1, WizardKeeps, AtOnceKeeps, ButtonsKeep DEF Next
  <2> QED BY <1>2, <2>1, <2>2
<1> QED BY <1>1, <1>2, PTL DEF Spec

\* Every state is well formed: what a task is about to store is there.
THEOREM CatalogueTypes == Spec => []TypeOK
<1>1. CatalogueInv => TypeOK
  BY DEF CatalogueInv, FsmFits, ShopFits, ShopTypes, TasksFit, TypeOK
<1> QED BY <1>1, InvariantHolds, PTL

\* A wizard has all the answers its question comes after, of one run of it, whatever
\* ends late or begins in between.
THEOREM WizardHasItsAnswers == Spec => []DataFitsState
<1>1. CatalogueInv => DataFitsState
  BY DEF CatalogueInv, FsmFits
<1> QED BY <1>1, InvariantHolds, PTL

\* A product has no file that was not sent for it.
THEOREM NoForeignFiles == Spec => []FilesWhereSent
<1>1. CatalogueInv => FilesWhereSent
  BY DEF CatalogueInv, ShopFits
<1> QED BY <1>1, InvariantHolds, PTL

\* No product is without its category, no file without its product.
THEOREM NothingLeftBehind == Spec => []NoOrphans
<1>1. CatalogueInv => NoOrphans
  BY DEF CatalogueInv, ShopFits
<1> QED BY <1>1, InvariantHolds, PTL
=============================================================================
