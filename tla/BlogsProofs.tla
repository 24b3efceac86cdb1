----------------------------- MODULE BlogsProofs -----------------------------
(***************************************************************************)
(* Theorems about Blogs, for any number of posts at the same time.         *)
(***************************************************************************)
EXTENDS Blogs, TLAPS

-----------------------------------------------------------------------------
(* The inductive invariant *)

(* What a post in a phase has stored. *)
PhaseTells ==
    \A b \in Posts :
        /\ phase[b] = "idle" => imageKey(b) \notin bucket
        /\ phase[b] = "inserting" => imageKey(b) \in bucket
        /\ phase[b] \in {"idle", "saving", "inserting"} => b \notin blogs
        /\ phase[b] = "deleting" /\ b \in blogs => b \in unheard

BlogsIInv ==
    /\ BlogsTypeOK
    /\ PhaseTells
    /\ unheard \subseteq blogs
    /\ StoredBlogHasImage
    /\ NoOrphanImage
    /\ AnswerMatchesStores

-----------------------------------------------------------------------------
(* The answers *)

(* No two posts have one key. *)
LEMMA ImageKeyInjective ==
    \A b, c \in Posts : imageKey(b) = imageKey(c) => b = c
    BY DEF imageKey

LEMMA MapErrorTo ==
    ASSUME NEW s \in Statuses, NEW class \in ExpectedErrorMappings[s],
           \A t \in Statuses : class \in ExpectedErrorMappings[t] => t = s
    PROVE  mapError(class) = Answer(s, class, FALSE)
<1> DEFINE chosen == CHOOSE t \in Statuses : class \in ExpectedErrorMappings[t]
<1>1. chosen \in Statuses /\ class \in ExpectedErrorMappings[chosen]
    OBVIOUS
<1>2. chosen = s
    BY <1>1
<1>3. mapError(class) = Answer(chosen, class, FALSE)
    BY DEF mapError
<1> QED
    BY <1>2, <1>3

LEMMA MapErrorUnexpected ==
    ASSUME NEW class, \A t \in Statuses : class \notin ExpectedErrorMappings[t]
    PROVE  mapError(class) = UNEXPECTED_EXCEPTION
    BY DEF mapError

LEMMA MapErrorKnown ==
    ASSUME NEW s \in Statuses, NEW class \in ExpectedErrorMappings[s],
           \A t \in Statuses : class \in ExpectedErrorMappings[t] => t = s
    PROVE  /\ mapError(class) \in AnswerType /\ mapError(class).status = s
           /\ ~mapError(class).reported
<1>1. mapError(class) = [status |-> s, code |-> class, reported |-> FALSE]
    BY MapErrorTo DEF Answer
<1>2. class \in Codes
    BY DEF Codes
<1>3. mapError(class) \in AnswerType
    BY <1>1, <1>2 DEF AnswerType
<1>4. mapError(class).status = s
    BY <1>1
<1>5. ~mapError(class).reported
    BY <1>1
<1> QED
    BY <1>3, <1>4, <1>5

LEMMA Unexpected ==
    /\ UNEXPECTED_EXCEPTION \in AnswerType /\ UNEXPECTED_EXCEPTION.status = 500
    /\ UNEXPECTED_EXCEPTION.reported
<1>1. UNEXPECTED_EXCEPTION
        = [status |-> 500, code |-> "internal_server_error", reported |-> TRUE]
    BY Zenon DEF UNEXPECTED_EXCEPTION, Answer
<1>2. "internal_server_error" \in Codes
    BY DEF Codes
<1>3. UNEXPECTED_EXCEPTION \in AnswerType
    BY <1>1, <1>2 DEF AnswerType
<1>4. UNEXPECTED_EXCEPTION.status = 500
    BY <1>1
<1>5. UNEXPECTED_EXCEPTION.reported = TRUE
    BY <1>1, Zenon
<1> QED
    BY <1>3, <1>4, <1>5

LEMMA Mappings ==
    /\ Statuses = {400, 401, 404, 409}
    /\ ExpectedErrorMappings[400] =
            {"InvalidEmailError", "InvalidDeviceIdError", "InvalidNameError",
             "InvalidNewPasswordError", "InvalidBlogCursorError",
             "InvalidBlogTitleError", "InvalidBlogContentError",
             "InvalidBlogImageError", "InvalidBlogTopicError",
             "InvalidChatMemberIdError", "InvalidChatMembersError",
             "InvalidChatMessageContentError", "InvalidChatCandidateCursorError",
             "InvalidChatListCursorError", "InvalidChatMessageCursorError"}
    /\ ExpectedErrorMappings[401] =
            {"InvalidCredentialsError", "InvalidRefreshTokenError",
             "InvalidAccessTokenError"}
    /\ ExpectedErrorMappings[404] =
            {"BlogNotFoundError", "ChatMemberNotFoundError", "ChatNotFoundError"}
    /\ ExpectedErrorMappings[409] =
            {"EmailAlreadyInUseError", "UserAlreadySignedInOnDeviceError"}
<1>1. Statuses = {400, 401, 404, 409}
    BY DEF Statuses, ExpectedErrorMappings
<1> QED
    BY <1>1 DEF ExpectedErrorMappings

(* A submission that is rejected is the fault of the client, but for an    *)
(* image of no known type.                                                 *)
LEMMA RejectAnswers ==
    ASSUME NEW d \in DOMAIN Defects
    PROVE  /\ catch(Defects[d]) \in AnswerType
           /\ catch(Defects[d]).status \in {400, 500}
           /\ catch(Defects[d]).reported <=> catch(Defects[d]).status = 500
<1>1. d \in {"body", "file", "title", "content", "topics", "imageType", "imageUnknown"}
    BY DEF Defects
<1>2. CASE d = "body"
  <2>1. Defects[d] = [http |-> TRUE, status |-> 400, list |-> TRUE]
      BY <1>2, Zenon DEF Defects, HttpException
  <2>2. catch(Defects[d]) = [status |-> 400, code |-> "validation_error", reported |-> FALSE]
      BY <2>1 DEF catch, extractHttpExceptionCode, Answer
  <2> QED
      BY <2>2, Mappings DEF AnswerType, Codes
<1>3. CASE d = "file"
  <2>1. Defects[d] = [http |-> TRUE, status |-> 400, list |-> FALSE]
      BY <1>3, Zenon DEF Defects, HttpException
  <2>2. catch(Defects[d]) = [status |-> 400, code |-> "bad_request", reported |-> FALSE]
      BY <2>1 DEF catch, extractHttpExceptionCode, Answer
  <2> QED
      BY <2>2, Mappings DEF AnswerType, Codes
<1>4. ASSUME NEW class, Defects[d] = Thrown(class)
      PROVE  catch(Defects[d]) = mapError(class)
  <2>1. Defects[d] = [http |-> FALSE, class |-> class]
      BY <1>4, Zenon DEF Thrown
  <2> QED
      BY <2>1 DEF catch
<1>5. ASSUME NEW class \in {"InvalidBlogTitleError", "InvalidBlogContentError",
                            "InvalidBlogTopicError", "InvalidBlogImageError"}
      PROVE  /\ mapError(class) \in AnswerType /\ mapError(class).status = 400
             /\ ~mapError(class).reported
  <2>1. class \in ExpectedErrorMappings[400]
      BY Mappings
  <2>2. \A t \in {401, 404, 409} : class \notin ExpectedErrorMappings[t]
      BY Mappings
  <2> QED
      BY <2>1, <2>2, Mappings, MapErrorKnown
<1>6. mapError("TypeError") = UNEXPECTED_EXCEPTION
    BY Mappings, MapErrorUnexpected
<1>7. CASE d \in {"title", "content", "topics", "imageType", "imageUnknown"}
  <2>1. /\ d = "title" => Defects[d] = Thrown("InvalidBlogTitleError")
        /\ d = "content" => Defects[d] = Thrown("InvalidBlogContentError")
        /\ d = "topics" => Defects[d] = Thrown("InvalidBlogTopicError")
        /\ d = "imageType" => Defects[d] = Thrown("InvalidBlogImageError")
        /\ d = "imageUnknown" => Defects[d] = Thrown("TypeError")
      BY DEF Defects, BlogTitleError, BlogContentError, BlogTopicError, BlogImageError
  <2> QED
      BY <1>4, <1>5, <1>6, <1>7, <2>1, Unexpected
<1> QED
    BY <1>1, <1>2, <1>3, <1>7

LEMMA FixedAnswers ==
    /\ catch(StoreError) \in AnswerType /\ catch(StoreError).status = 500
    /\ catch(StoreError).reported
    /\ Created \in AnswerType /\ Created.status = 201
<1>1. catch(StoreError) = UNEXPECTED_EXCEPTION
  <2>1. mapError("Error") = UNEXPECTED_EXCEPTION
      BY Mappings, MapErrorUnexpected
  <2> QED
      BY <2>1, Zenon DEF StoreError, Thrown, catch
<1>2. Created = [status |-> 201, code |-> "created", reported |-> FALSE]
    BY Zenon DEF Created, Answer
<1>3. Created \in AnswerType /\ Created.status = 201
    BY <1>2 DEF AnswerType, Codes
<1> QED
    BY <1>1, <1>3, Unexpected

LEMMA NotFoundAnswer == BlogNotFound.status = 404
<1>1. "BlogNotFoundError" \in ExpectedErrorMappings[404]
    BY Mappings
<1>2. \A t \in {400, 401, 409} : "BlogNotFoundError" \notin ExpectedErrorMappings[t]
    BY Mappings
<1>3. mapError("BlogNotFoundError").status = 404
    BY <1>1, <1>2, Mappings, MapErrorKnown
<1>4. BlogNotFound = mapError("BlogNotFoundError")
    BY Zenon DEF BlogNotFound, catch, Thrown
<1> QED
    BY <1>3, <1>4

(* What the readers answer. *)
LEMMA ReadersAnswer ==
    ASSUME NEW b \in Posts
    PROVE  /\ getBlogById(b).status = IF b \in blogs THEN 200 ELSE 404
           /\ getBlogImage(b).status = IF b \in blogs THEN 307 ELSE 404
           /\ b \in blogs => getBlogImage(b).code = imageKey(b)
<1>1. CASE b \in blogs
  <2>1. findById(b) = {b} /\ findImageByBlogId(b) = {imageKey(b)}
      BY <1>1 DEF findById, findImageByBlogId
  <2>2. (CHOOSE key \in findImageByBlogId(b) : TRUE) = imageKey(b)
      BY <2>1
  <2>3. getBlogById(b) = Answer(200, "blog", FALSE)
      BY <2>1 DEF getBlogById
  <2>4. getBlogImage(b) = Answer(307, imageKey(b), FALSE)
      BY <2>1, <2>2 DEF getBlogImage, signReadUrl
  <2> QED
      BY <1>1, <2>3, <2>4 DEF Answer
<1>2. CASE b \notin blogs
  <2>1. findById(b) = {} /\ findImageByBlogId(b) = {}
      BY <1>2 DEF findById, findImageByBlogId
  <2> QED
      BY <1>2, <2>1, NotFoundAnswer DEF getBlogById, getBlogImage
<1> QED
    BY <1>1, <1>2

(* AnswerMatchesStores without the readers. *)
AnswerKept(b) ==
    phase[b] = "ended" =>
        /\ answer[b].status = 201 => b \in blogs /\ imageKey(b) \in bucket
        /\ answer[b].status \in 400 .. 499 =>
            ~answer[b].reported /\ b \notin blogs /\ imageKey(b) \notin bucket
        /\ answer[b].status >= 500 => answer[b].reported /\ (b \in blogs <=> b \in unheard)

LEMMA AnswersKept == AnswerMatchesStores <=> \A b \in Posts : AnswerKept(b)
    BY ReadersAnswer DEF AnswerMatchesStores, AnswerKept

-----------------------------------------------------------------------------
(* Every step preserves the invariant, one lemma for each action. *)
LEMMA AnswersKeptPrime == (\A b \in Posts : AnswerKept(b)') => AnswerMatchesStores'
<1>1. (AnswerMatchesStores <=> \A b \in Posts : AnswerKept(b))'
    BY AnswersKept, PTL
<1> QED
    BY <1>1

LEMMA SubmitStep ==
    ASSUME BlogsIInv, NEW b \in Posts, Submit(b)
    PROVE BlogsIInv'
<1>1. BlogsTypeOK'
    BY DEF stores, MoveTo, Phases, Submit, BlogsTypeOK, BlogsIInv
<1>2. PhaseTells' /\ (unheard \subseteq blogs)'
    BY DEF stores, MoveTo, Submit, PhaseTells, BlogsIInv
<1>3. StoredBlogHasImage'
    BY DEF stores, Submit, StoredBlogHasImage, BlogsIInv
<1>4. NoOrphanImage'
    BY DEF stores, MoveTo, Submit, NoOrphanImage, BlogsIInv
<1>5. \A c \in Posts : AnswerKept(c)'
    BY AnswersKept DEF stores, MoveTo, Submit, AnswerKept, BlogsIInv
<1> QED
    BY <1>1, <1>2, <1>3, <1>4, <1>5, AnswersKeptPrime DEF BlogsIInv

LEMMA RejectStep ==
    ASSUME BlogsIInv, NEW b \in Posts, Reject(b)
    PROVE BlogsIInv'
<1>1. BlogsTypeOK'
    BY WaitingAssumption, RejectAnswers DEF stores, MoveTo, Reply, Phases,
       Reject, BlogsTypeOK, BlogsIInv
<1>2. PhaseTells' /\ (unheard \subseteq blogs)'
    BY DEF stores, MoveTo, Reply, Reject, PhaseTells, BlogsIInv
<1>3. StoredBlogHasImage'
    BY DEF stores, Reject, StoredBlogHasImage, BlogsIInv
<1>4. NoOrphanImage'
    BY DEF stores, MoveTo, Reply, Reject, PhaseTells, NoOrphanImage, BlogsIInv
<1>5. \A c \in Posts : AnswerKept(c)'
    BY RejectAnswers, AnswersKept DEF stores, MoveTo, Reply, Reject,
       BlogsTypeOK, PhaseTells, AnswerKept, BlogsIInv
<1> QED
    BY <1>1, <1>2, <1>3, <1>4, <1>5, AnswersKeptPrime DEF BlogsIInv

LEMMA SaveImageStep ==
    ASSUME BlogsIInv, NEW b \in Posts, SaveImage(b)
    PROVE BlogsIInv'
<1>1. BlogsTypeOK'
    BY DEF MoveTo, Phases, SaveImage, BlogsTypeOK, BlogsIInv
<1>2. PhaseTells' /\ (unheard \subseteq blogs)'
    BY ImageKeyInjective DEF MoveTo, SaveImage, PhaseTells, BlogsIInv
<1>3. StoredBlogHasImage'
    BY DEF SaveImage, StoredBlogHasImage, BlogsIInv
<1>4. NoOrphanImage'
    BY ImageKeyInjective DEF MoveTo, SaveImage, NoOrphanImage, BlogsIInv
<1>5. \A c \in Posts : AnswerKept(c)'
    BY ImageKeyInjective, AnswersKept DEF MoveTo, SaveImage, AnswerKept,
       BlogsIInv
<1> QED
    BY <1>1, <1>2, <1>3, <1>4, <1>5, AnswersKeptPrime DEF BlogsIInv

LEMMA SaveFailsStep ==
    ASSUME BlogsIInv, NEW b \in Posts, SaveFails(b)
    PROVE BlogsIInv'
<1>1. BlogsTypeOK'
    BY WaitingAssumption, FixedAnswers DEF MoveTo, Reply, Phases, SaveFails,
       BlogsTypeOK, BlogsIInv
<1>2. PhaseTells' /\ (unheard \subseteq blogs)'
    BY ImageKeyInjective DEF MoveTo, Reply, SaveFails, PhaseTells, BlogsIInv
<1>3. StoredBlogHasImage'
    BY DEF SaveFails, StoredBlogHasImage, BlogsIInv
<1>4. NoOrphanImage'
    BY ImageKeyInjective DEF MoveTo, Reply, SaveFails, NoOrphanImage, BlogsIInv
<1>5. \A c \in Posts : AnswerKept(c)'
    BY ImageKeyInjective, FixedAnswers, AnswersKept DEF MoveTo, Reply,
       SaveFails, BlogsTypeOK, PhaseTells, AnswerKept, BlogsIInv
<1> QED
    BY <1>1, <1>2, <1>3, <1>4, <1>5, AnswersKeptPrime DEF BlogsIInv

LEMMA InsertRowStep ==
    ASSUME BlogsIInv, NEW b \in Posts, InsertRow(b)
    PROVE BlogsIInv'
<1>1. BlogsTypeOK'
    BY WaitingAssumption, FixedAnswers DEF MoveTo, Reply, Phases, InsertRow,
       BlogsTypeOK, BlogsIInv
<1>2. PhaseTells' /\ (unheard \subseteq blogs)'
    BY DEF MoveTo, Reply, InsertRow, BlogsTypeOK, PhaseTells, BlogsIInv
<1>3. StoredBlogHasImage'
    BY DEF InsertRow, PhaseTells, StoredBlogHasImage, BlogsIInv
<1>4. NoOrphanImage'
    BY DEF MoveTo, Reply, InsertRow, NoOrphanImage, BlogsIInv
<1>5. \A c \in Posts : AnswerKept(c)'
    BY FixedAnswers, AnswersKept DEF MoveTo, Reply, InsertRow, BlogsTypeOK,
       PhaseTells, AnswerKept, BlogsIInv
<1> QED
    BY <1>1, <1>2, <1>3, <1>4, <1>5, AnswersKeptPrime DEF BlogsIInv

LEMMA InsertFailsStep ==
    ASSUME BlogsIInv, NEW b \in Posts, InsertFails(b)
    PROVE BlogsIInv'
<1>1. BlogsTypeOK'
    BY DEF MoveTo, Phases, InsertFails, BlogsTypeOK, BlogsIInv
<1>2. PhaseTells' /\ (unheard \subseteq blogs)'
    BY DEF MoveTo, InsertFails, BlogsTypeOK, PhaseTells, BlogsIInv
<1>3. StoredBlogHasImage'
    BY DEF InsertFails, StoredBlogHasImage, BlogsIInv
<1>4. NoOrphanImage'
    BY DEF MoveTo, InsertFails, NoOrphanImage, BlogsIInv
<1>5. \A c \in Posts : AnswerKept(c)'
    BY AnswersKept DEF MoveTo, InsertFails, AnswerKept, BlogsIInv
<1> QED
    BY <1>1, <1>2, <1>3, <1>4, <1>5, AnswersKeptPrime DEF BlogsIInv

LEMMA DeleteImageStep ==
    ASSUME BlogsIInv, NEW b \in Posts, DeleteImage(b)
    PROVE BlogsIInv'
<1>1. BlogsTypeOK'
    BY WaitingAssumption, FixedAnswers DEF MoveTo, Reply, Phases,
       DeleteImage, BlogsTypeOK, BlogsIInv
<1>2. PhaseTells' /\ (unheard \subseteq blogs)'
    BY ImageKeyInjective DEF MoveTo, Reply, DeleteImage, PhaseTells, BlogsIInv
<1>3. StoredBlogHasImage'
    BY ImageKeyInjective DEF DeleteImage, BlogsTypeOK, PhaseTells,
       StoredBlogHasImage, BlogsIInv
<1>4. NoOrphanImage'
    BY DEF MoveTo, Reply, DeleteImage, NoOrphanImage, BlogsIInv
<1>5. \A c \in Posts : AnswerKept(c)'
    BY ImageKeyInjective, FixedAnswers, AnswersKept DEF MoveTo, Reply,
       DeleteImage, BlogsTypeOK, PhaseTells, AnswerKept, BlogsIInv
<1> QED
    BY <1>1, <1>2, <1>3, <1>4, <1>5, AnswersKeptPrime DEF BlogsIInv

LEMMA DeleteFailsStep ==
    ASSUME BlogsIInv, NEW b \in Posts, DeleteFails(b)
    PROVE BlogsIInv'
<1>1. BlogsTypeOK'
    BY WaitingAssumption, FixedAnswers DEF MoveTo, Reply, Phases,
       DeleteFails, BlogsTypeOK, BlogsIInv
<1>2. PhaseTells' /\ (unheard \subseteq blogs)'
    BY ImageKeyInjective DEF MoveTo, Reply, DeleteFails, PhaseTells, BlogsIInv
<1>3. StoredBlogHasImage'
    BY ImageKeyInjective DEF DeleteFails, BlogsTypeOK, PhaseTells,
       StoredBlogHasImage, BlogsIInv
<1>4. NoOrphanImage'
    BY DEF MoveTo, Reply, DeleteFails, NoOrphanImage, BlogsIInv
<1>5. \A c \in Posts : AnswerKept(c)'
    BY ImageKeyInjective, FixedAnswers, AnswersKept DEF MoveTo, Reply,
       DeleteFails, BlogsTypeOK, PhaseTells, AnswerKept, BlogsIInv
<1> QED
    BY <1>1, <1>2, <1>3, <1>4, <1>5, AnswersKeptPrime DEF BlogsIInv

LEMMA DieStep == ASSUME BlogsIInv, NEW b \in Posts, Die(b) PROVE BlogsIInv'
<1>1. BlogsTypeOK'
    BY DEF stores, MoveTo, Phases, InFlight, Die, BlogsTypeOK, BlogsIInv
<1>2. PhaseTells' /\ (unheard \subseteq blogs)'
    BY ImageKeyInjective DEF stores, MoveTo, Die, BlogsTypeOK, PhaseTells,
       BlogsIInv
<1>3. StoredBlogHasImage'
    BY ImageKeyInjective DEF stores, Die, BlogsTypeOK, PhaseTells,
       StoredBlogHasImage, BlogsIInv
<1>4. NoOrphanImage'
    BY ImageKeyInjective DEF stores, MoveTo, Die, NoOrphanImage, BlogsIInv
<1>5. \A c \in Posts : AnswerKept(c)'
    BY ImageKeyInjective, AnswersKept DEF stores, MoveTo, Die, AnswerKept,
       BlogsIInv
<1> QED
    BY <1>1, <1>2, <1>3, <1>4, <1>5, AnswersKeptPrime DEF BlogsIInv

LEMMA BlogsStutterStep == ASSUME BlogsIInv, UNCHANGED blogVars PROVE BlogsIInv'
    BY AnswersKept, AnswersKeptPrime
       DEF BlogsIInv, blogVars, BlogsTypeOK, PhaseTells, StoredBlogHasImage, NoOrphanImage,
           AnswerKept

-----------------------------------------------------------------------------

LEMMA InitBlogsIInv == BlogsInit => BlogsIInv
    BY DEF Phases, BlogsInit, BlogsIInv, AnswerMatchesStores, BlogsTypeOK,
       PhaseTells, StoredBlogHasImage, NoOrphanImage

LEMMA NextBlogsIInv == BlogsIInv /\ [BlogsNext]_blogVars => BlogsIInv'
<1> SUFFICES ASSUME BlogsIInv, [BlogsNext]_blogVars PROVE BlogsIInv'
    OBVIOUS
<1>1. ASSUME NEW b \in Posts, Step(b) PROVE BlogsIInv'
    BY <1>1, SubmitStep, RejectStep, SaveImageStep, SaveFailsStep, InsertRowStep,
       InsertFailsStep, DeleteImageStep, DeleteFailsStep, DieStep DEF Step
<1>2. CASE UNCHANGED blogVars
    BY <1>2, BlogsStutterStep
<1> QED
    BY <1>1, <1>2 DEF BlogsNext

-----------------------------------------------------------------------------
(* The invariant holds in every reachable state. *)
THEOREM BlogsInvariance == BlogsSpec => []BlogsIInv
    BY InitBlogsIInv, NextBlogsIInv, PTL DEF BlogsSpec

(* Every post that ended was answered. *)
THEOREM BlogsTypeCorrectness == BlogsSpec => []BlogsTypeOK
<1>1. BlogsIInv => BlogsTypeOK
    BY DEF BlogsIInv
<1>2. QED
    BY <1>1, BlogsInvariance, PTL

(* Whatever fails or dies, a stored blog has its image, unless the insert  *)
(* committed unheard.                                                      *)
THEOREM ImagesOfBlogs == BlogsSpec => []StoredBlogHasImage
<1>1. BlogsIInv => StoredBlogHasImage
    BY DEF BlogsIInv
<1>2. QED
    BY <1>1, BlogsInvariance, PTL

(* The compensation leaves no image behind, unless it fails itself.        *)
THEOREM NoOrphans == BlogsSpec => []NoOrphanImage
<1>1. BlogsIInv => NoOrphanImage
    BY DEF BlogsIInv
<1>2. QED
    BY <1>1, BlogsInvariance, PTL

(* Every answer agrees with what was stored.                               *)
THEOREM TrueAnswers == BlogsSpec => []AnswerMatchesStores
<1>1. BlogsIInv => AnswerMatchesStores
    BY DEF BlogsIInv
<1>2. QED
    BY <1>1, BlogsInvariance, PTL
===============================================================================
