SPECIFICATION FairSpec
CONSTANTS
    Users = {1, 2, 3}
    Chats = {1, 2}
    Messages = {1, 2, 3}
    Blogs = {1, 2, 3}
    MemberSets <- MCMemberSets
    Me = 1
    Lower <- MCLower
    ToLowerCase <- MCToLowerCase
    Limits = {1, 2}
    Times = {1, 2}
    Millisecond = 2
    MaxMessages <- MCMaxMessages
    None = None
INVARIANTS TypeOK NothingMissed OnlyMembersSee NoRowTwice
PROPERTY EventuallySeen
