-------------------------------- MODULE Blogs --------------------------------
(***************************************************************************)
(* Creating a blog: the image goes to a bucket of Cloud Storage first, the *)
(* row to Postgres second, and when the insert fails the image is deleted  *)
(* again (src/features/blog, src/core/storage).  The two stores have no    *)
(* common transaction, so each call may fail, may have its effect and yet  *)
(* report an error, and the process may die at any of them.                *)
(*                                                                         *)
(* A request is named by the blog id it draws.  Titles, contents, topics   *)
(* and images are reduced to what may be wrong with them.                  *)
(***************************************************************************)
EXTENDS ApiErrors

CONSTANTS
    Posts,    \* blog ids randomUUID can give, and the requests that draw them
    Waiting   \* a request that has no answer

ASSUME WaitingAssumption == Waiting \notin AnswerType

VARIABLES
    phase,   \* of each request: where createBlog is
    blogs,   \* table blogs: the ids it has
    bucket,  \* keys of the objects in the bucket
    answer,  \* what the client was answered
    orphans, \* posts whose image may stay behind: the reason is known
    unheard  \* posts whose insert committed and reported an error

stores == <<blogs, bucket>>
blogVars == <<phase, blogs, bucket, answer, orphans, unheard>>

Phases == {"idle",
           "saving",     \* awaits the save of the image
           "inserting",  \* awaits the insert of the row
           "deleting",   \* awaits the delete of the image
           "ended",      \* answered
           "gone"}       \* the process died

BlogsInit ==
    /\ phase = [b \in Posts |-> "idle"]
    /\ blogs = {} /\ bucket = {}
    /\ answer = [b \in Posts |-> Waiting]
    /\ orphans = {} /\ unheard = {}

-----------------------------------------------------------------------------
(* Mutant: all images have one key. *)
imageKeyShared(b) == <<"blogs", "image">>

(* blogs/<blogId>/image *)
imageKey(b) == <<"blogs", b, "image">>

(* What the value objects throw. *)
BlogTitleError == Thrown("InvalidBlogTitleError")
BlogContentError == Thrown("InvalidBlogContentError")
BlogTopicError == Thrown("InvalidBlogTopicError")

(* A type that is recognized and not supported is refused; one that is not *)
(* recognized ends in a TypeError while the message is put together.       *)
BlogImageError(recognized) ==
    Thrown(IF recognized THEN "InvalidBlogImageError" ELSE "TypeError")

(* What may be wrong with a submission, and what is thrown then. *)
Defects ==
    [body |-> HttpException(400, TRUE),
     file |-> HttpException(400, FALSE),
     title |-> BlogTitleError,
     content |-> BlogContentError,
     topics |-> BlogTopicError,
     imageType |-> BlogImageError(TRUE),
     imageUnknown |-> BlogImageError(FALSE)]

StoreError == Thrown("Error")

Created == Answer(201, "created", FALSE)

MoveTo(b, p) == phase' = [phase EXCEPT ![b] = p]

(* Mutant: the request hangs. *)
ReplyNever(b, a) == MoveTo(b, "ended") /\ answer' = [answer EXCEPT ![b] = Waiting]

Reply(b, a) == MoveTo(b, "ended") /\ answer' = [answer EXCEPT ![b] = a]

-----------------------------------------------------------------------------
(* createBlog, up to the call of blogImageStorage.save. *)
Submit(b) ==
    /\ phase[b] = "idle"
    /\ MoveTo(b, "saving")
    /\ UNCHANGED <<stores, answer, orphans, unheard>>

Reject(b) ==
    /\ phase[b] = "idle"
    /\ \E d \in DOMAIN Defects : Reply(b, catch(Defects[d]))
    /\ UNCHANGED <<stores, orphans, unheard>>

SaveImage(b) ==
    /\ phase[b] = "saving"
    /\ bucket' = bucket \cup {imageKey(b)}
    /\ MoveTo(b, "inserting")
    /\ UNCHANGED <<blogs, answer, orphans, unheard>>

(* The save is not inside the try: nothing is compensated. *)
SaveFails(b) ==
    /\ phase[b] = "saving"
    /\ bucket' \in {bucket, bucket \cup {imageKey(b)}}
    /\ orphans' = orphans \cup {b}
    /\ Reply(b, catch(StoreError))
    /\ UNCHANGED <<blogs, unheard>>

InsertRow(b) ==
    /\ phase[b] = "inserting"
    /\ blogs' = blogs \cup {b}
    /\ Reply(b, Created)
    /\ UNCHANGED <<bucket, orphans, unheard>>

(* Mutant: nothing is compensated. *)
InsertFailsForGood(b) ==
    /\ phase[b] = "inserting"
    /\ \/ UNCHANGED <<blogs, unheard>>
       \/ blogs' = blogs \cup {b} /\ unheard' = unheard \cup {b}
    /\ Reply(b, catch(StoreError))
    /\ UNCHANGED <<bucket, orphans>>

(* The insert is refused, by the foreign key or because the database       *)
(* cannot be reached; or it commits and only its answer is lost.           *)
InsertFails(b) ==
    /\ phase[b] = "inserting"
    /\ \/ UNCHANGED <<blogs, unheard>>
       \/ blogs' = blogs \cup {b} /\ unheard' = unheard \cup {b}
    /\ MoveTo(b, "deleting")
    /\ UNCHANGED <<bucket, answer, orphans>>

(* The image is deleted, and the error of the insert thrown again. *)
DeleteImage(b) ==
    /\ phase[b] = "deleting"
    /\ bucket' = bucket \ {imageKey(b)}
    /\ Reply(b, catch(StoreError))
    /\ UNCHANGED <<blogs, orphans, unheard>>

(* The error of the delete takes the place of that of the insert. *)
DeleteFails(b) ==
    /\ phase[b] = "deleting"
    /\ bucket' \in {bucket, bucket \ {imageKey(b)}}
    /\ orphans' = orphans \cup {b}
    /\ Reply(b, catch(StoreError))
    /\ UNCHANGED <<blogs, unheard>>

InFlight(b) == phase[b] \in {"saving", "inserting", "deleting"}

(* The process dies while it awaits a call, which may be carried out. *)
Die(b) ==
    /\ InFlight(b)
    /\ \/ UNCHANGED stores
       \/ /\ phase[b] = "saving" /\ UNCHANGED blogs
          /\ bucket' = bucket \cup {imageKey(b)}
       \/ phase[b] = "inserting" /\ blogs' = blogs \cup {b} /\ UNCHANGED bucket
       \/ /\ phase[b] = "deleting" /\ UNCHANGED blogs
          /\ bucket' = bucket \ {imageKey(b)}
    /\ MoveTo(b, "gone")
    /\ orphans' = orphans \cup {b}
    /\ UNCHANGED <<answer, unheard>>

Step(b) ==
    \/ Submit(b) \/ Reject(b) \/ SaveImage(b) \/ SaveFails(b) \/ InsertRow(b)
    \/ InsertFails(b) \/ DeleteImage(b) \/ DeleteFails(b) \/ Die(b)

BlogsNext == \E b \in Posts : Step(b)

BlogsSpec == BlogsInit /\ [][BlogsNext]_blogVars

-----------------------------------------------------------------------------
(* The readers; a query returns the rows it finds. *)

findById(b) == blogs \cap {b}
findImageByBlogId(b) == {imageKey(row) : row \in blogs \cap {b}}

(* A redirect to the signed URL, whatever the bucket has. *)
signReadUrl(key) == Answer(307, key, FALSE)

BlogNotFound == catch(Thrown("BlogNotFoundError"))

getBlogById(b) ==
    IF findById(b) = {} THEN BlogNotFound ELSE Answer(200, "blog", FALSE)

getBlogImage(b) ==
    IF findImageByBlogId(b) = {}
    THEN BlogNotFound
    ELSE signReadUrl(CHOOSE key \in findImageByBlogId(b) : TRUE)

-----------------------------------------------------------------------------
(* Properties *)

(* A post that ended, and no other, has an answer; images are of posts.    *)
BlogsTypeOK ==
    /\ phase \in [Posts -> Phases]
    /\ blogs \subseteq Posts /\ orphans \subseteq Posts /\ unheard \subseteq Posts
    /\ bucket \subseteq {imageKey(b) : b \in Posts}
    /\ answer \in [Posts -> AnswerType \cup {Waiting}]
    /\ \A b \in Posts : phase[b] = "ended" <=> answer[b] # Waiting

(* Whatever fails or dies, and whatever other posts clean up after         *)
(* themselves, a blog that can be read has its image - unless its insert   *)
(* committed and reported an error, and the image was deleted for it.      *)
StoredBlogHasImage ==
    \A b \in blogs : imageKey(b) \in bucket \/ b \in unheard

(* No image is kept of a post that ended without its row, unless a save or *)
(* a delete failed or the process died.                                    *)
NoOrphanImage ==
    \A b \in Posts :
        phase[b] = "ended" /\ imageKey(b) \in bucket => b \in blogs \/ b \in orphans

(* What the client was told is so: after 201 the blog and its image are    *)
(* there for good; after any 4xx nothing was stored and the fault is the   *)
(* client's; and what the server has to answer for is a 500 that is        *)
(* reported - "best-effort" (create-blog.use-case.ts) notwithstanding, the *)
(* only 500 that leaves a blog behind is the one whose insert committed.   *)
AnswerMatchesStores ==
    \A b \in Posts : phase[b] = "ended" =>
        /\ answer[b].status = 201 =>
            /\ getBlogById(b).status = 200
            /\ getBlogImage(b).status = 307 /\ getBlogImage(b).code \in bucket
        /\ answer[b].status \in 400 .. 499 =>
            /\ ~answer[b].reported
            /\ getBlogById(b).status = 404 /\ imageKey(b) \notin bucket
        /\ answer[b].status >= 500 =>
            answer[b].reported /\ (b \in blogs <=> b \in unheard)
===============================================================================
