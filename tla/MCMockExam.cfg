CONSTANTS
    Scopes = {a, b}
    NumQuestions = 2
    TimeLimit = 2
    NoExam = none
    MaxTime = 3
    MaxExams = 2
SPECIFICATION ExamLiveSpec
INVARIANT RecordedOnce
INVARIANT ReloadResumes
PROPERTY TimeUpSubmits
