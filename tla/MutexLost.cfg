CONSTANTS
    Thread = {t1, t2}
    NoThread = NoThread
SPECIFICATION FairSpec
PROPERTY FreeLockIsTaken
